---- MODULE Spec2Model ----
(***************************************************************************)
(* Ingestion / categorization / retrieval pipeline of vector-db-demo.      *)
(*                                                                         *)
(*   - categorizeRecords (src/src/utils/csvCleaner.ts): batch-parallel     *)
(*     classification with local degradation of a failed record;          *)
(*   - ensureCollection, addCategoryIndex (src/src/ingestion/              *)
(*     csvIngestion.ts): provisioning of the collection and of the         *)
(*     keyword index on `category`;                                        *)
(*   - getDocumentsFromQdrant (same file): paginated scroll with the       *)
(*     client-side fallback when the index is missing.                     *)
(*   - ingestEmbeddingsFromCsv (same file): batch-parallel embedding and   *)
(*     one upsert per batch;                                               *)
(*   - advancedFiltering (src/agent/tools/advanced-filtering.ts): the      *)
(*     compound filter over the documents fetched;                         *)
(*   - the read paths: documentsController.getDocuments, semanticSearch,   *)
(*     and the handler of POST /search/advanced (src/src/routes/search.ts).*)
(*                                                                         *)
(* An optional value (undefined / a value) is a sequence of length 0 or 1: *)
(* <<>> is "absent", <<v>> is "v".  Scores are hundredths: 0.9 is 90.       *)
(***************************************************************************)
EXTENDS Integers, Sequences, FiniteSets, TLC

(***************************************************************************)
(* Bounds of the model.  batchSize is 10 and limit is 1000 in the source   *)
(* (csvCleaner.ts:114, csvIngestion.ts:296); the code is parametric in     *)
(* both, and the model runs them small so that several batches and several *)
(* pages happen within a few records.                                      *)
(***************************************************************************)
MaxRecords == 4

batchSize == 2

MaxCats == 2

MaxPoints == 5

limit == 2

MaxCalls == 2

Min(S) == CHOOSE x \in S : \A y \in S : x <= y

Max(S) == CHOOSE x \in S : \A y \in S : y <= x

(***************************************************************************)
(* The classifier's answer.  The text of a response is a sequence of       *)
(* tokens: "txt" is prose without braces, "lb" / "rb" a lone '{' / '}' in  *)
(* the prose, "obj" a JSON object (its text starts with '{' and ends with  *)
(* '}').  A JSON object is [fields, categories, reasoning]: fields is the  *)
(* set of keys it has.                                                     *)
(***************************************************************************)
Names == {"", "DL", "NLP"}

ScoreVals == {0, 60, 90, 150}

Entry(n, s) == [name |-> n, score |-> s]

EmptyObject == [fields |-> {}, categories |-> <<>>, reasoning |-> ""]

Tok(t, v) == [t |-> t, v |-> v]

Txt == Tok("txt", EmptyObject)

Lb == Tok("lb", EmptyObject)

Rb == Tok("rb", EmptyObject)

Obj(v) == Tok("obj", v)

Analysis(cats, why) ==
  [fields |-> {"categories", "reasoning"}, categories |-> cats, reasoning |-> why]

Threw == [throws |-> TRUE, text |-> <<>>]

Said(text) == [throws |-> FALSE, text |-> text]

(* 'Non catégorisé' in the source (csvCleaner.ts:173,186,193). *)
Uncategorized == "Non categorise"

(***************************************************************************)
(* responseContent.match(/\{[\s\S]*\}/): from the first '{' to the last    *)
(* '}' of the text, when the first '{' comes before the last '}'.          *)
(***************************************************************************)
Opens(text) == {k \in 1..Len(text) : text[k].t \in {"lb", "obj"}}

Closes(text) == {k \in 1..Len(text) : text[k].t \in {"rb", "obj"}}

jsonMatch(text) ==
  IF Opens(text) # {} /\ Closes(text) # {} /\ Min(Opens(text)) <= Max(Closes(text))
  THEN <<SubSeq(text, Min(Opens(text)), Max(Closes(text)))>>
  ELSE <<>>

jsonStr(text) == IF jsonMatch(text) # <<>> THEN jsonMatch(text)[1] ELSE text

(***************************************************************************)
(* JSON.parse: a value when the string is exactly one JSON object ("{}"    *)
(* included), a SyntaxError (<<>>) otherwise.                              *)
(***************************************************************************)
JSONparse(s) ==
  IF Len(s) = 1 /\ s[1].t = "obj" THEN <<s[1].v>>
  ELSE IF s = <<Lb, Rb>> THEN <<EmptyObject>>
  ELSE <<>>

(* faulty variant: the schema without .max(1) *)
CategorySchemaNoMax(e) == e.score >= 0

(* z.object({name: z.string(), score: z.number().min(0).max(1)}) *)
CategorySchema(e) == e.score >= 0 /\ e.score <= 100

(* z.object({categories: z.array(CategorySchema), reasoning: z.string()}) *)
CategoryAnalysisSchema(v) ==
  /\ "categories" \in v.fields
  /\ "reasoning" \in v.fields
  /\ \A k \in 1..Len(v.categories) : CategorySchema(v.categories[k])

(***************************************************************************)
(* categories.sort((a, b) => b.score - a.score): Array.prototype.sort is   *)
(* stable, so entries of equal score keep their relative order.            *)
(***************************************************************************)
(* faulty variant: a sort that puts an entry before the entries of equal score *)
RECURSIVE InsertDescStrict(_, _)
InsertDescStrict(s, e) ==
  IF s = <<>> THEN <<e>>
  ELSE IF s[Len(s)].score > e.score THEN Append(s, e)
  ELSE Append(InsertDescStrict(SubSeq(s, 1, Len(s) - 1), e), s[Len(s)])

RECURSIVE InsertDesc(_, _)
InsertDesc(s, e) ==
  IF s = <<>> THEN <<e>>
  ELSE IF s[Len(s)].score >= e.score THEN Append(s, e)
  ELSE Append(InsertDesc(SubSeq(s, 1, Len(s) - 1), e), s[Len(s)])

(* faulty variant: the list is left in the classifier's order *)
SortDescNone(s) == s

RECURSIVE SortDesc(_)
SortDesc(s) ==
  IF s = <<>> THEN <<>>
  ELSE InsertDesc(SortDesc(SubSeq(s, 1, Len(s) - 1)), s[Len(s)])

(* {...record, category, category_analysis}: the seven columns of the record are copied *)
spread(record, category, analysis) ==
  [id |-> record.id, project_id |-> record.project_id, asset_id |-> record.asset_id,
   content_type |-> record.content_type, text |-> record.text,
   created_at |-> record.created_at, updated_at |-> record.updated_at,
   category |-> category, category_analysis |-> analysis]

(* faulty variant: the degraded record loses its dates *)
DegradedNoDates(record) ==
  [spread(record, Uncategorized, <<>>) EXCEPT !.created_at = "", !.updated_at = ""]

(* {...record, category: 'Non catégorisé'} *)
Degraded(record) == spread(record, Uncategorized, <<>>)

(* {...record, category_analysis: categoryAnalysis, category: mainCategory} *)
Categorized(record, v) ==
  LET sorted == SortDesc(v.categories)
      mainCategory == IF Len(v.categories) > 0 THEN sorted[1].name ELSE Uncategorized
  IN spread(record, mainCategory, <<[categories |-> sorted, reasoning |-> v.reasoning]>>)

(***************************************************************************)
(* The body of batch.map(async (record) => ...): the outer catch takes a   *)
(* rejected llm.invoke, the inner catch a SyntaxError of JSON.parse and a   *)
(* ZodError of CategoryAnalysisSchema.parse.                               *)
(***************************************************************************)
categorizeOne(record, response) ==
  IF response.throws THEN Degraded(record)
  ELSE LET analysisData == JSONparse(jsonStr(response.text))
       IN IF analysisData = <<>> THEN Degraded(record)
          ELSE IF ~CategoryAnalysisSchema(analysisData[1]) THEN Degraded(record)
          ELSE Categorized(record, analysisData[1])

(* faulty variant: a slice that stops one element early *)
SliceShort(s, from, to) == SubSeq(s, from + 1, IF to - 1 < Len(s) THEN to - 1 ELSE Len(s))

(* records.slice(from, to), from and to counted from 0 *)
Slice(s, from, to) == SubSeq(s, from + 1, IF to < Len(s) THEN to ELSE Len(s))

(***************************************************************************)
(* Inputs of the model: the records handed to categorizeRecords, and what  *)
(* the classifier may answer to one call.                                  *)
(***************************************************************************)
(* a record of cleanCsvFile: the seven columns, neither category nor analysis *)
CleanedRecord(id, text, project, asset, type, created, updated) ==
  [id |-> id, project_id |-> project, asset_id |-> asset, content_type |-> type,
   text |-> text, created_at |-> created, updated_at |-> updated]

RecordUniverse ==
  {CleanedRecord("r1", "ta", "p1", "a1", "doc", "d1", "d2"),
   CleanedRecord("r2", "tb", "p2", "a2", "img", "d3", "d3")}

RecordLists == UNION {[1..n -> RecordUniverse] : n \in 0..MaxRecords}

AllEntries == {Entry(n, s) : n \in Names, s \in ScoreVals}

CatLists == UNION {[1..m -> AllEntries] : m \in 0..MaxCats}

JsonObjects ==
  {Analysis(c, "why") : c \in CatLists}
    \cup {[fields |-> {"categories"}, categories |-> c, reasoning |-> ""] : c \in CatLists}
    \cup {EmptyObject}

(* every answer of the classifier the model knows *)
AllResponses ==
  {Threw, Said(<<Txt>>), Said(<<Lb, Rb>>), Said(<<Rb, Lb>>), Said(<<Lb, Txt>>)}
    \cup {Said(<<Obj(v)>>) : v \in JsonObjects}
    \cup {Said(<<Txt, Obj(v)>>) : v \in JsonObjects}
    \cup {Said(<<Obj(v), Txt>>) : v \in JsonObjects}
    \cup {Said(<<Txt, Obj(v), Txt>>) : v \in JsonObjects}

(* answers whose explanatory text after the object contains braces *)
BraceResponses ==
  {Said(<<Obj(v), Txt, Rb>>) : v \in JsonObjects}
    \cup {Said(<<Obj(v), Lb, Txt>>) : v \in JsonObjects}
    \cup {Said(<<Txt, Obj(v), Txt, Lb, Txt, Rb>>) : v \in JsonObjects}

(* the answers a call of the concurrent job draws from *)
JobResponses ==
  {Threw,
   Said(<<Txt>>),
   Said(<<Obj(Analysis(<<Entry("DL", 150)>>, "why"))>>),
   Said(<<Obj(Analysis(<<Entry("NLP", 60), Entry("DL", 90)>>, "why"))>>),
   Said(<<Txt, Obj(Analysis(<<Entry("", 90), Entry("NLP", 90)>>, "why")), Txt>>)}

VARIABLES
  records,             \* categorizeRecords: the input list
  apiKey,              \* process.env.OPENAI_API_KEY is set
  pcClassify,          \* "start", "loop", "await", "done", "failed"
  i,                   \* the batch loop's index
  promises,            \* one slot per record of the batch: <<>> pending, <<r>> resolved
  categorizedRecords,  \* the output list
  response,            \* per input position: the answer its call got, <<>> before
  started,             \* input positions whose classifier call was issued
  one,                 \* a single record's classification: [record, response]
  result               \* its outcome: <<>> before, <<r>> after

classifyVars ==
  <<records, apiKey, pcClassify, i, promises, categorizedRecords, response, started>>

oneVars == <<one, result>>

VARIABLES
  store,               \* the vector store: [collection, index] exist
  points               \* the points of the collection, in scroll order

storeVars == <<store, points>>

VARIABLES
  category,            \* getDocumentsFromQdrant: its argument, <<>> when not given
  pcFetch,             \* "start", "scroll", "fallback", "done", "error"
  offset,
  allPoints,
  documents,           \* the list returned
  fetchErr,            \* the error thrown to the caller, "none" before
  pages,               \* the length of every page the store returned so far
  fallbackFrom         \* <<offset>> at which the fallback scan began, <<>> without fallback

fetchVars ==
  <<category, pcFetch, offset, allPoints, documents, fetchErr, pages, fallbackFrom>>

VARIABLES
  op,                  \* per process: "ensureCollection" or "addCategoryIndex"
  pcProv,              \* per process: "idle", "list", "create", "index", "done", "raised"
  calls,               \* per process: the calls it began
  provErr,             \* per process: the error its call threw, "none" otherwise
  indexAnswer,         \* per process: the store's answer to its createPayloadIndex
  faults,              \* per process: the store calls of this call that failed
  prev                 \* per process: <<>> or <<its previous call and the store after it>>

provVars == <<op, pcProv, calls, provErr, indexAnswer, faults, prev>>

VARIABLES
  validRecords,        \* ingestEmbeddingsFromCsv: the rows that passed CleanedEmbeddingSchema
  pcIngest,            \* "start", "loop", "await", "upsert", "done", "failed", "crashed"
  iIngest,             \* the batch loop's index (`i` of the loop at line 202)
  pointPromises,       \* one slot per record of the batch: <<>> pending, <<p>> resolved
  embedded,            \* per input position: "none", "ok" or "fail", the outcome of its embedding call
  embedStarted,        \* input positions whose embedding call was issued
  upserts,             \* the upsert calls of this run: [batch, points, done]
  ingestErr,           \* the error thrown to the caller, "none" before
  runs,                \* the runs begun so far
  csvRows,             \* the rows parsed from the categorized CSV, valid or not
  storeOps,            \* the kinds of store and embedding operations this run began
  lastWrite            \* per record id: <<>> or <<the payload of the last completed write>>

ingestVars ==
  <<validRecords, pcIngest, iIngest, pointPromises, embedded, embedStarted, upserts,
    ingestErr, runs, csvRows, storeOps, lastWrite>>

VARIABLES
  stored,              \* advancedFiltering: the payloads of the collection, in scroll order
  options,             \* its argument: the criteria
  retrieved,           \* what getDocumentsFromQdrant() returned to it, <<>> before
  filtered             \* its outcome: <<>> before, <<[err, docs]>> after

filterVars == <<stored, options, retrieved, filtered>>

VARIABLES
  caller,              \* the read path that ran: "none", "getDocuments", "semanticSearch"
  handed,              \* what it handed to its caller: <<>> before, <<[err, includeReasoning, docs]>> after
  reply                \* POST /search/advanced: <<>> before, <<[status, documents]>> after

readVars == <<caller, handed, reply>>

VARIABLES
  answered             \* the last answer of the store to fetch, search or ingestion: "none" before

vars ==
  <<classifyVars, oneVars, storeVars, fetchVars, provVars, ingestVars, filterVars, readVars,
    answered>>

notClassify ==
  <<oneVars, storeVars, fetchVars, provVars, ingestVars, filterVars, readVars, answered>>

notOne ==
  <<classifyVars, storeVars, fetchVars, provVars, ingestVars, filterVars, readVars, answered>>

notFetch == <<classifyVars, oneVars, provVars, ingestVars, filterVars, readVars>>

notProv == <<classifyVars, oneVars, fetchVars, ingestVars, filterVars, readVars, answered>>

notIngest == <<classifyVars, oneVars, fetchVars, provVars, filterVars, readVars>>

notFilter ==
  <<classifyVars, oneVars, storeVars, fetchVars, provVars, ingestVars, readVars, answered>>

notRead == <<classifyVars, oneVars, storeVars, fetchVars, provVars, ingestVars>>

Procs == {"p1", "p2"}

batch == Slice(records, i, i + batchSize)

completed == {k \in 1..Len(records) : response[k] # <<>>}

inFlight == started \ completed

(* the batch an input position belongs to, counted from 0 *)
BatchOf(k) == (k - 1) \div batchSize

(***************************************************************************)
(* categorizeRecords                                                       *)
(***************************************************************************)
ClassifyIdle ==
  /\ records = <<>> /\ apiKey = TRUE /\ pcClassify = "done" /\ i = 0
  /\ promises = <<>> /\ categorizedRecords = <<>> /\ response = <<>> /\ started = {}

StoreIdle == store = [collection |-> FALSE, index |-> FALSE] /\ points = <<>>

FetchIdle ==
  /\ category = <<>> /\ pcFetch = "done" /\ offset = 0 /\ allPoints = <<>>
  /\ documents = <<>> /\ fetchErr = "none" /\ pages = <<>> /\ fallbackFrom = <<>>

ProvIdle ==
  /\ op = [p \in Procs |-> "ensureCollection"]
  /\ pcProv = [p \in Procs |-> "idle"]
  /\ calls = [p \in Procs |-> 0]
  /\ provErr = [p \in Procs |-> "none"]
  /\ indexAnswer = [p \in Procs |-> "none"]
  /\ faults = [p \in Procs |-> {}]
  /\ prev = [p \in Procs |-> <<>>]

OneIdle ==
  /\ one = [record |-> CleanedRecord("r1", "ta", "p1", "a1", "doc", "d1", "d2"),
            response |-> Threw]
  /\ result = <<>>

Ids == {"r1", "r2"}

NoOptions ==
  [mainCategory |-> <<>>, categories |-> <<>>, minScore |-> <<>>,
   reasoningKeywords |-> <<>>, limit |-> <<>>]

FilterIdle == stored = <<>> /\ options = NoOptions /\ retrieved = <<>> /\ filtered = <<>>

ReadIdle == caller = "none" /\ handed = <<>> /\ reply = <<>> /\ answered = "none"

IngestIdle ==
  /\ validRecords = <<>> /\ pcIngest = "done" /\ iIngest = 0 /\ pointPromises = <<>>
  /\ embedded = <<>> /\ embedStarted = {} /\ upserts = <<>> /\ ingestErr = "none"
  /\ runs = 0 /\ csvRows = <<>> /\ storeOps = {} /\ lastWrite = [d \in Ids |-> <<>>]

InitClassify ==
  /\ records \in RecordLists
  /\ apiKey \in BOOLEAN
  /\ pcClassify = "start"
  /\ i = 0
  /\ promises = <<>>
  /\ categorizedRecords = <<>>
  /\ response = [k \in 1..Len(records) |-> <<>>]
  /\ started = {}
  /\ OneIdle
  /\ StoreIdle
  /\ FetchIdle
  /\ ProvIdle
  /\ IngestIdle
  /\ FilterIdle
  /\ ReadIdle

(* lines 98-111: the API key check, the client, the empty output list *)
Begin ==
  /\ pcClassify = "start"
  /\ pcClassify' = (IF apiKey THEN "loop" ELSE "failed")
  /\ UNCHANGED <<records, apiKey, i, promises, categorizedRecords, response, started>>
  /\ UNCHANGED notClassify

(* lines 115-196: slice the batch; batch.map issues every call of it *)
StartBatch ==
  /\ pcClassify = "loop"
  /\ i < Len(records)
  /\ promises' = [k \in 1..Len(batch) |-> <<>>]
  /\ started' = started \cup {i + k : k \in 1..Len(batch)}
  /\ pcClassify' = "await"
  /\ UNCHANGED <<records, apiKey, i, categorizedRecords, response>>
  /\ UNCHANGED notClassify

(* lines 156-195: one call of the batch returns, in any order *)
Respond(k, r) ==
  /\ pcClassify = "await"
  /\ k \in 1..Len(promises)
  /\ promises[k] = <<>>
  /\ promises' = [promises EXCEPT ![k] = <<categorizeOne(batch[k], r)>>]
  /\ response' = [response EXCEPT ![i + k] = <<r>>]
  /\ UNCHANGED <<records, apiKey, pcClassify, i, categorizedRecords, started>>
  /\ UNCHANGED notClassify

(* faulty variant: the batch is left as soon as one of its calls returned *)
AwaitAny ==
  /\ pcClassify = "await"
  /\ \E k \in 1..Len(promises) : promises[k] # <<>>
  /\ categorizedRecords' = categorizedRecords \o
       [k \in 1..Len(promises) |->
          IF promises[k] # <<>> THEN promises[k][1] ELSE Degraded(batch[k])]
  /\ i' = i + batchSize
  /\ promises' = <<>>
  /\ pcClassify' = "loop"
  /\ UNCHANGED <<records, apiKey, response, started>>
  /\ UNCHANGED notClassify

(* lines 198-199: Promise.all resolved; push the batch; i += batchSize *)
AwaitAll ==
  /\ pcClassify = "await"
  /\ \A k \in 1..Len(promises) : promises[k] # <<>>
  /\ categorizedRecords' = categorizedRecords \o [k \in 1..Len(promises) |-> promises[k][1]]
  /\ i' = i + batchSize
  /\ promises' = <<>>
  /\ pcClassify' = "loop"
  /\ UNCHANGED <<records, apiKey, response, started>>
  /\ UNCHANGED notClassify

(* lines 202-227: the loop is over; the CSV is written; the list is returned *)
Finish ==
  /\ pcClassify = "loop"
  /\ i >= Len(records)
  /\ pcClassify' = "done"
  /\ UNCHANGED <<records, apiKey, i, promises, categorizedRecords, response, started>>
  /\ UNCHANGED notClassify

NextClassify ==
  \/ Begin
  \/ StartBatch
  \/ \E k \in 1..batchSize, r \in JobResponses : Respond(k, r)
  \/ AwaitAll
  \/ Finish

SpecClassify == InitClassify /\ [][NextClassify]_vars

(***************************************************************************)
(* One record's classification, over every answer of the classifier.       *)
(***************************************************************************)
InitOne ==
  /\ ClassifyIdle
  /\ StoreIdle
  /\ FetchIdle
  /\ ProvIdle
  /\ one \in [record : RecordUniverse, response : AllResponses]
  /\ result = <<>>
  /\ IngestIdle
  /\ FilterIdle
  /\ ReadIdle

CategorizeOne ==
  /\ result = <<>>
  /\ result' = <<categorizeOne(one.record, one.response)>>
  /\ UNCHANGED one
  /\ UNCHANGED notOne

NextOne == CategorizeOne

SpecOne == InitOne /\ [][NextOne]_vars

(***************************************************************************)
(* The same body, the answers with braces in the trailing text included.   *)
(***************************************************************************)
InitExtract ==
  /\ ClassifyIdle
  /\ StoreIdle
  /\ FetchIdle
  /\ ProvIdle
  /\ IngestIdle
  /\ FilterIdle
  /\ ReadIdle
  /\ one \in [record : RecordUniverse, response : AllResponses \cup BraceResponses]
  /\ result = <<>>

SpecExtract == InitExtract /\ [][NextOne]_vars

(***************************************************************************)
(* The vector store, as getDocumentsFromQdrant uses it.  scroll returns up *)
(* to `limit` points from position `offset` of the points that match the   *)
(* filter; a filter on `category` is rejected when the keyword index is    *)
(* missing; any call may fail because the store cannot be reached.         *)
(***************************************************************************)
Categories == {"A", "B"}

PointLists ==
  UNION {{[k \in 1..n |-> [id |-> k, category |-> c[k]]] : c \in [1..n -> Categories]}
           : n \in 0..MaxPoints}

Matching(filter) ==
  SelectSeq(points, LAMBDA pt : filter = <<>> \/ pt.category = filter[1])

scroll(filter, off) ==
  IF filter # <<>> /\ ~store.index
  THEN [err |-> "index_missing", points |-> <<>>]
  ELSE [err |-> "none", points |-> Slice(Matching(filter), off, off + limit)]

ScrollAnswers(filter, off) ==
  {scroll(filter, off), [err |-> "unavailable", points |-> <<>>]}

(***************************************************************************)
(* getDocumentsFromQdrant                                                  *)
(***************************************************************************)
(* const filter = category ? {must: [...]} : undefined  (an empty string is falsy) *)
Filter == IF category # <<>> /\ category[1] # "" THEN category ELSE <<>>

(* faulty variant: the fallback keeps every point of the page *)
filteredPointsAll(pts) == pts

(* response.points.filter(point => point.payload && point.payload.category === category) *)
filteredPoints(pts) == SelectSeq(pts, LAMBDA pt : pt.category = category[1])

(* faulty variant: the index-missing rejection is tolerated without a category too *)
toleratedNoCategory(err) == err = "index_missing"

(* lines 321-323: category && ... error.includes('Index required but not found') *)
tolerated(err) == Filter # <<>> /\ err = "index_missing"

(* faulty variant: a full page ends the loop too *)
lastPageOffByOne(n) == n = 0 \/ n <= limit

(* if (response.points.length === 0) break; ... if (response.points.length < limit) break; *)
lastPage(n) == n = 0 \/ n < limit

(* allPoints.map(point => new Document({...})) *)
ToDocuments(pts) == [k \in 1..Len(pts) |-> [id |-> pts[k].id, category |-> pts[k].category]]

InitFetch ==
  /\ ClassifyIdle
  /\ OneIdle
  /\ ProvIdle
  /\ store \in [collection : BOOLEAN, index : BOOLEAN]
  /\ store.index => store.collection
  /\ points \in PointLists
  /\ ~store.collection => points = <<>>
  /\ category \in {<<>>, <<"">>} \cup {<<c>> : c \in Categories}
  /\ pcFetch = "start"
  /\ offset = 0
  /\ allPoints = <<>>
  /\ documents = <<>>
  /\ fetchErr = "none"
  /\ pages = <<>>
  /\ fallbackFrom = <<>>
  /\ IngestIdle
  /\ FilterIdle
  /\ ReadIdle

(* lines 265-298: getCollections; the collection must exist *)
FetchBegin(a) ==
  /\ pcFetch = "start"
  /\ IF a = "unavailable" THEN pcFetch' = "error" /\ fetchErr' = "unavailable"
     ELSE IF ~store.collection THEN pcFetch' = "error" /\ fetchErr' = "no_collection"
     ELSE pcFetch' = "scroll" /\ UNCHANGED fetchErr
  /\ UNCHANGED <<category, offset, allPoints, documents, pages, fallbackFrom>>
  /\ answered' = a
  /\ UNCHANGED <<storeVars, notFetch>>

(* lines 300-325 and 349-373: one scroll of the filtered loop *)
Scroll(a) ==
  /\ pcFetch = "scroll"
  /\ IF a.err = "none"
     THEN /\ pages' = Append(pages, Len(a.points))
          /\ allPoints' = allPoints \o a.points
          /\ offset' = offset + Len(a.points)
          /\ IF lastPage(Len(a.points))
             THEN pcFetch' = "done" /\ documents' = ToDocuments(allPoints')
             ELSE pcFetch' = "scroll" /\ UNCHANGED documents
          /\ UNCHANGED <<fetchErr, fallbackFrom>>
     ELSE /\ IF tolerated(a.err)
             THEN pcFetch' = "fallback" /\ fallbackFrom' = <<offset>> /\ UNCHANGED fetchErr
             ELSE pcFetch' = "error" /\ fetchErr' = a.err /\ UNCHANGED fallbackFrom
          /\ UNCHANGED <<offset, allPoints, documents, pages>>
  /\ UNCHANGED category
  /\ answered' = IF a.err = "none" THEN "ok" ELSE a.err
  /\ UNCHANGED <<storeVars, notFetch>>

(* lines 327-348 and 355-373: one scroll of the fallback loop, without the filter *)
FallbackScroll(a) ==
  /\ pcFetch = "fallback"
  /\ IF a.err = "none"
     THEN /\ pages' = Append(pages, Len(a.points))
          /\ allPoints' = allPoints \o filteredPoints(a.points)
          /\ offset' = offset + Len(a.points)
          /\ IF lastPage(Len(a.points))
             THEN pcFetch' = "done" /\ documents' = ToDocuments(allPoints')
             ELSE pcFetch' = "fallback" /\ UNCHANGED documents
          /\ UNCHANGED fetchErr
     ELSE /\ pcFetch' = "error"
          /\ fetchErr' = a.err
          /\ UNCHANGED <<offset, allPoints, documents, pages>>
  /\ UNCHANGED <<category, fallbackFrom>>
  /\ answered' = IF a.err = "none" THEN "ok" ELSE a.err
  /\ UNCHANGED <<storeVars, notFetch>>

NextFetch ==
  \/ \E a \in {"ok", "unavailable"} : FetchBegin(a)
  \/ \E a \in ScrollAnswers(Filter, offset) : Scroll(a)
  \/ \E a \in ScrollAnswers(<<>>, offset) : FallbackScroll(a)

SpecFetch == InitFetch /\ [][NextFetch]_vars

(***************************************************************************)
(* getDocumentsFromQdrant against a store that may reject any scroll with  *)
(* 'Index required but not found': the index can be deleted between two    *)
(* pages of a scan, and the handler of lines 319-353 must also decide on a *)
(* rejection that reaches it when no category was asked for.               *)
(***************************************************************************)
FaultAnswers(filter, off) ==
  ScrollAnswers(filter, off) \cup {[err |-> "index_missing", points |-> <<>>]}

NextFetchFaults ==
  \/ \E a \in {"ok", "unavailable"} : FetchBegin(a)
  \/ \E a \in FaultAnswers(Filter, offset) : Scroll(a)
  \/ \E a \in FaultAnswers(<<>>, offset) : FallbackScroll(a)

SpecFetchFaults == InitFetch /\ [][NextFetchFaults]_vars

(***************************************************************************)
(* The vector store, as the provisioning uses it.  createCollection of a   *)
(* collection that exists is answered "already exists"; createPayloadIndex *)
(* of an index that exists is answered with success or "already exists",   *)
(* depending on the store; any call may fail for another reason.           *)
(***************************************************************************)
ListAnswers == {"ok", "unavailable"}

CreateAnswers == IF store.collection THEN {"exists", "unavailable"} ELSE {"ok", "unavailable"}

IndexAnswers ==
  IF ~store.collection THEN {"other"}
  ELSE IF store.index THEN {"ok", "exists", "other"}
  ELSE {"ok", "other"}

(***************************************************************************)
(* ensureCollection and addCategoryIndex, run by several processes.  Each  *)
(* await of a store call is a step of its own.                             *)
(***************************************************************************)
InitProvision ==
  /\ ClassifyIdle
  /\ OneIdle
  /\ FetchIdle
  /\ ProvIdle
  /\ store \in [collection : BOOLEAN, index : BOOLEAN]
  /\ store.index => store.collection
  /\ points = <<>>
  /\ IngestIdle
  /\ FilterIdle
  /\ ReadIdle

(* a process calls ensureCollection (line 197) or addCategoryIndex (line 435) *)
ProvBegin(p, o) ==
  /\ pcProv[p] \in {"idle", "done", "raised"}
  /\ calls[p] < MaxCalls
  /\ prev' = [prev EXCEPT ![p] =
                IF pcProv[p] = "idle" THEN <<>>
                ELSE <<[op |-> op[p], pc |-> pcProv[p], faults |-> faults[p], store |-> store]>>]
  /\ op' = [op EXCEPT ![p] = o]
  /\ calls' = [calls EXCEPT ![p] = @ + 1]
  /\ pcProv' = [pcProv EXCEPT ![p] = "list"]
  /\ provErr' = [provErr EXCEPT ![p] = "none"]
  /\ indexAnswer' = [indexAnswer EXCEPT ![p] = "none"]
  /\ faults' = [faults EXCEPT ![p] = {}]
  /\ UNCHANGED <<storeVars, notProv>>

(* the error handling of createPayloadIndex at lines 102-111 (the collection was just created) *)
indexNewRaises(a) == FALSE

(* faulty variant: ensureCollection rethrows what is not "already exists" *)
indexOldRaisesOther(a) == a # "ok" /\ a # "exists"

(* the error handling of createPayloadIndex at lines 118-133 (the collection existed) *)
indexOldRaises(a) == FALSE

(* faulty variant: addCategoryIndex swallows every error *)
indexAddRaisesNever(a) == FALSE

(* the error handling of createPayloadIndex at lines 410-424 (addCategoryIndex) *)
indexAddRaises(a) == a # "ok" /\ a # "exists"

(* lines 88-91 and 402-407: getCollections, collections.some(c => c.name === collectionName) *)
List(p, a) ==
  /\ pcProv[p] = "list"
  /\ a \in ListAnswers
  /\ IF a = "unavailable"
     THEN /\ pcProv' = [pcProv EXCEPT ![p] = "raised"]
          /\ provErr' = [provErr EXCEPT ![p] = "unavailable"]
          /\ faults' = [faults EXCEPT ![p] = @ \cup {"list"}]
     ELSE IF op[p] = "ensureCollection"
     THEN /\ pcProv' = [pcProv EXCEPT ![p] = IF store.collection THEN "index_old" ELSE "create"]
          /\ UNCHANGED <<provErr, faults>>
     ELSE IF store.collection
     THEN /\ pcProv' = [pcProv EXCEPT ![p] = "index_add"]
          /\ UNCHANGED <<provErr, faults>>
     ELSE /\ pcProv' = [pcProv EXCEPT ![p] = "raised"]
          /\ provErr' = [provErr EXCEPT ![p] = "no_collection"]
          /\ UNCHANGED faults
  /\ UNCHANGED <<op, calls, indexAnswer, prev>>
  /\ UNCHANGED <<storeVars, notProv>>

(* lines 92-98 and 135-138: createCollection; its error goes to the outer catch, which rethrows *)
Create(p, a) ==
  /\ pcProv[p] = "create"
  /\ a \in CreateAnswers
  /\ IF a = "ok"
     THEN /\ store' = [store EXCEPT !.collection = TRUE]
          /\ pcProv' = [pcProv EXCEPT ![p] = "index_new"]
          /\ UNCHANGED <<provErr, faults>>
     ELSE /\ pcProv' = [pcProv EXCEPT ![p] = "raised"]
          /\ provErr' = [provErr EXCEPT ![p] = a]
          /\ faults' = [faults EXCEPT ![p] = IF a = "unavailable" THEN @ \cup {"create"} ELSE @]
          /\ UNCHANGED store
  /\ UNCHANGED <<op, calls, indexAnswer, prev, points>>
  /\ UNCHANGED notProv

(* createPayloadIndex, on each of its three paths: lines 100-113, 117-133, 409-424 *)
Index(p, a) ==
  /\ pcProv[p] \in {"index_new", "index_old", "index_add"}
  /\ a \in IndexAnswers
  /\ store' = [store EXCEPT !.index = @ \/ a = "ok"]
  /\ indexAnswer' = [indexAnswer EXCEPT ![p] = a]
  /\ faults' = [faults EXCEPT ![p] = IF a = "other" THEN @ \cup {"index"} ELSE @]
  /\ LET raises == CASE pcProv[p] = "index_new" -> indexNewRaises(a)
                     [] pcProv[p] = "index_old" -> indexOldRaises(a)
                     [] pcProv[p] = "index_add" -> indexAddRaises(a)
     IN /\ pcProv' = [pcProv EXCEPT ![p] = IF raises THEN "raised" ELSE "done"]
        /\ provErr' = [provErr EXCEPT ![p] = IF raises THEN a ELSE @]
  /\ UNCHANGED <<op, calls, prev, points>>
  /\ UNCHANGED notProv

NextProvision ==
  \/ \E p \in Procs, o \in {"ensureCollection", "addCategoryIndex"} : ProvBegin(p, o)
  \/ \E p \in Procs, a \in ListAnswers : List(p, a)
  \/ \E p \in Procs, a \in {"ok", "exists", "unavailable"} : Create(p, a)
  \/ \E p \in Procs, a \in {"ok", "exists", "other"} : Index(p, a)

SpecProvision == InitProvision /\ [][NextProvision]_vars

(***************************************************************************)
(* ingestEmbeddingsFromCsv: the rows read back from the categorized CSV.   *)
(* A row is [id, text, category, category_analysis_json, missing];         *)
(* category is "" when the column is empty, category_analysis_json is a    *)
(* text (<<>> the empty string), missing is the set of required columns    *)
(* the row lacks.  The other columns are copied to the payload untouched.  *)
(***************************************************************************)
MaxValid == 3

MaxRuns == 2

IngestUniverse ==
  {[id |-> "r1", text |-> "ta", category |-> "DL", missing |-> {},
    category_analysis_json |-> <<Obj(Analysis(<<Entry("DL", 90)>>, "why"))>>],
   [id |-> "r1", text |-> "tb", category |-> "", missing |-> {},
    category_analysis_json |-> <<Txt>>],
   [id |-> "r2", text |-> "ta", category |-> "NLP", missing |-> {},
    category_analysis_json |-> <<>>]}

(* a row that lacks a required column *)
InvalidRows ==
  {[id |-> "r3", text |-> "", category |-> "DL", missing |-> {"text"},
    category_analysis_json |-> <<>>]}

RowLists == UNION {[1..n -> IngestUniverse \cup InvalidRows] : n \in 0..MaxValid}

(* faulty variant: every row is taken for valid *)
CleanedEmbeddingSchemaAny(row) == TRUE

(* CleanedEmbeddingSchema.parse(record) succeeds: every required column is a string *)
CleanedEmbeddingSchema(row) == row.missing = {}

(* faulty variant: the run goes on without a valid row *)
noneValidNever(recs) == FALSE

(* if (validRecords.length === 0) throw *)
noneValid(recs) == Len(recs) = 0

ValidLists == UNION {[1..n -> IngestUniverse] : n \in 0..MaxValid}

(* lines 208-234: the point of a record whose embedding call succeeded *)
MakePoint(record) ==
  [id |-> record.id,
   payload |->
     [text |-> record.text,
      category |-> IF record.category # "" THEN record.category ELSE Uncategorized,
      category_analysis |->
        IF record.category_analysis_json # <<>>
        THEN JSONparse(record.category_analysis_json)
        ELSE <<>>]]

(* faulty variant: a store that adds a point whatever its id *)
putAppend(pts, pt) == Append(pts, pt)

(* the store's write of one point: create, or overwrite the point of the same id *)
put(pts, pt) ==
  IF \E k \in 1..Len(pts) : pts[k].id = pt.id
  THEN [k \in 1..Len(pts) |-> IF pts[k].id = pt.id THEN pt ELSE pts[k]]
  ELSE Append(pts, pt)

(* client.upsert(collectionName, {points}): the points are written in the order given *)
RECURSIVE upsert(_, _)
upsert(pts, new) == IF new = <<>> THEN pts ELSE upsert(put(pts, Head(new)), Tail(new))

(* validRecords.slice(i, i + batchSize) *)
ingestBatch == Slice(validRecords, iIngest, iIngest + batchSize)

(* (await Promise.all(pointPromises)).filter(point => point !== null) *)
survivors(resolved) ==
  LET kept == SelectSeq(resolved, LAMBDA slot : slot[1] # <<>>)
  IN  [k \in 1..Len(kept) |-> kept[k][1][1]]

(* faulty variant: the upsert is issued for an empty list too *)
nonEmptyAlways(pts) == TRUE

(* if (points.length > 0) *)
nonEmpty(pts) == Len(pts) > 0

InitIngest ==
  /\ ClassifyIdle
  /\ OneIdle
  /\ FetchIdle
  /\ ProvIdle
  /\ store = [collection |-> TRUE, index |-> TRUE]
  /\ points = <<>>
  /\ csvRows \in ValidLists
  /\ validRecords = <<>>
  /\ pcIngest = "start"
  /\ iIngest = 0
  /\ pointPromises = <<>>
  /\ embedded = <<>>
  /\ embedStarted = {}
  /\ upserts = <<>>
  /\ ingestErr = "none"
  /\ storeOps = {}
  /\ runs = 1
  /\ lastWrite = [d \in Ids |-> <<>>]
  /\ FilterIdle
  /\ ReadIdle

(* lines 156-197: the rows are validated; none valid is an error; ensureCollection *)
IngestBegin(a) ==
  /\ pcIngest = "start"
  /\ validRecords' = SelectSeq(csvRows, CleanedEmbeddingSchema)
  /\ embedded' = [k \in 1..Len(validRecords') |-> "none"]
  /\ IF noneValid(validRecords')
     THEN pcIngest' = "failed" /\ ingestErr' = "no_valid_record" /\ storeOps' = storeOps
     ELSE /\ storeOps' = storeOps \cup {"ensureCollection"}
          /\ IF a = "ok"
             THEN pcIngest' = "loop" /\ ingestErr' = "none"
             ELSE pcIngest' = "failed" /\ ingestErr' = a
  /\ UNCHANGED <<iIngest, pointPromises, embedStarted, upserts, runs, csvRows, lastWrite>>
  /\ UNCHANGED storeVars
  /\ answered' = IF noneValid(validRecords') THEN answered ELSE a
  /\ UNCHANGED notIngest

(* lines 202-239: slice the batch; batch.map issues every embedding call of it *)
IngestStartBatch ==
  /\ pcIngest = "loop"
  /\ iIngest < Len(validRecords)
  /\ pointPromises' = [k \in 1..Len(ingestBatch) |-> <<>>]
  /\ embedStarted' = embedStarted \cup {iIngest + k : k \in 1..Len(ingestBatch)}
  /\ pcIngest' = "await"
  /\ storeOps' = storeOps \cup {"embed"}
  /\ UNCHANGED <<validRecords, iIngest, embedded, upserts, ingestErr, runs, csvRows, lastWrite>>
  /\ UNCHANGED storeVars
  /\ UNCHANGED answered
  /\ UNCHANGED notIngest

(* lines 207-238: one embedding call of the batch returns, in any order *)
Embed(k, a) ==
  /\ pcIngest = "await"
  /\ k \in 1..Len(pointPromises)
  /\ pointPromises[k] = <<>>
  /\ pointPromises' =
       [pointPromises EXCEPT ![k] =
          IF a = "ok" THEN << <<MakePoint(validRecords[iIngest + k])>> >> ELSE << <<>> >>]
  /\ embedded' = [embedded EXCEPT ![iIngest + k] = a]
  /\ UNCHANGED <<validRecords, pcIngest, iIngest, embedStarted, upserts, ingestErr, runs,
                 csvRows, storeOps, lastWrite>>
  /\ UNCHANGED storeVars
  /\ UNCHANGED answered
  /\ UNCHANGED notIngest

(* faulty variant: the upsert is issued and the loop goes on without awaiting it *)
IngestAwaitAllNoAwait ==
  /\ pcIngest = "await"
  /\ \A k \in 1..Len(pointPromises) : pointPromises[k] # <<>>
  /\ IF nonEmpty(survivors(pointPromises))
     THEN /\ upserts' = Append(upserts, [batch |-> iIngest \div batchSize,
                                         points |-> survivors(pointPromises),
                                         done |-> FALSE])
          /\ storeOps' = storeOps \cup {"upsert"}
     ELSE upserts' = upserts /\ storeOps' = storeOps
  /\ pcIngest' = "loop"
  /\ iIngest' = iIngest + batchSize
  /\ pointPromises' = <<>>
  /\ UNCHANGED <<validRecords, embedded, embedStarted, ingestErr, runs, csvRows, lastWrite>>
  /\ UNCHANGED storeVars
  /\ UNCHANGED answered
  /\ UNCHANGED notIngest

(* lines 241-248: Promise.all resolved; the nulls are dropped; the upsert is issued, or skipped *)
IngestAwaitAll ==
  /\ pcIngest = "await"
  /\ \A k \in 1..Len(pointPromises) : pointPromises[k] # <<>>
  /\ IF nonEmpty(survivors(pointPromises))
     THEN /\ upserts' = Append(upserts, [batch |-> iIngest \div batchSize,
                                         points |-> survivors(pointPromises),
                                         done |-> FALSE])
          /\ pcIngest' = "upsert"
          /\ iIngest' = iIngest
          /\ storeOps' = storeOps \cup {"upsert"}
     ELSE /\ upserts' = upserts
          /\ storeOps' = storeOps
          /\ pcIngest' = "loop"
          /\ iIngest' = iIngest + batchSize
  /\ pointPromises' = <<>>
  /\ UNCHANGED <<validRecords, embedded, embedStarted, ingestErr, runs, csvRows, lastWrite>>
  /\ UNCHANGED storeVars
  /\ UNCHANGED answered
  /\ UNCHANGED notIngest

(* lines 245-247 and 252-255: the upsert returns; its error goes to the catch, which rethrows *)
UpsertDone(a) ==
  /\ pcIngest = "upsert"
  /\ IF a = "ok"
     THEN /\ points' = upsert(points, upserts[Len(upserts)].points)
          /\ lastWrite' =
               [d \in Ids |->
                  LET new == upserts[Len(upserts)].points
                      at == {k \in 1..Len(new) : new[k].id = d}
                  IN  IF at = {} THEN lastWrite[d] ELSE <<new[Max(at)].payload>>]
          /\ upserts' = [upserts EXCEPT ![Len(upserts)].done = TRUE]
          /\ iIngest' = iIngest + batchSize
          /\ pcIngest' = "loop"
          /\ ingestErr' = ingestErr
     ELSE /\ pcIngest' = "failed"
          /\ ingestErr' = a
          /\ UNCHANGED <<points, lastWrite, upserts, iIngest>>
  /\ UNCHANGED <<validRecords, pointPromises, embedded, embedStarted, runs, csvRows,
                 storeOps, store>>
  /\ answered' = a
  /\ UNCHANGED notIngest

(* line 251: the loop is over *)
IngestFinish ==
  /\ pcIngest = "loop"
  /\ iIngest >= Len(validRecords)
  /\ pcIngest' = "done"
  /\ UNCHANGED <<validRecords, iIngest, pointPromises, embedded, embedStarted, upserts,
                 ingestErr, runs, csvRows, storeOps, lastWrite>>
  /\ UNCHANGED storeVars
  /\ UNCHANGED answered
  /\ UNCHANGED notIngest

(* the process is stopped between two batches; what the store completed stays *)
Interrupt ==
  /\ pcIngest = "loop"
  /\ iIngest > 0
  /\ pcIngest' = "crashed"
  /\ UNCHANGED <<validRecords, iIngest, pointPromises, embedded, embedStarted, upserts,
                 ingestErr, runs, csvRows, storeOps, lastWrite>>
  /\ UNCHANGED storeVars
  /\ UNCHANGED answered
  /\ UNCHANGED notIngest

(* ingestEmbeddingsFromCsv is run again, over the same rows or over others *)
RunAgain(rows) ==
  /\ pcIngest \in {"done", "failed", "crashed"}
  /\ runs < MaxRuns
  /\ runs' = runs + 1
  /\ csvRows' = rows
  /\ validRecords' = <<>>
  /\ storeOps' = {}
  /\ pcIngest' = "start"
  /\ iIngest' = 0
  /\ pointPromises' = <<>>
  /\ embedded' = <<>>
  /\ embedStarted' = {}
  /\ upserts' = <<>>
  /\ ingestErr' = "none"
  /\ UNCHANGED lastWrite
  /\ UNCHANGED storeVars
  /\ answered' = "none"
  /\ UNCHANGED notIngest

NextIngest ==
  \/ \E a \in {"ok", "unavailable"} : IngestBegin(a)
  \/ IngestStartBatch
  \/ \E k \in 1..batchSize, a \in {"ok", "fail"} : Embed(k, a)
  \/ IngestAwaitAll
  \/ \E a \in {"ok", "unavailable"} : UpsertDone(a)
  \/ IngestFinish
  \/ Interrupt
  \/ \E rows \in ValidLists : RunAgain(rows)

SpecIngest == InitIngest /\ [][NextIngest]_vars

(***************************************************************************)
(* One run of ingestEmbeddingsFromCsv over a categorized CSV whose rows    *)
(* may fail the validation.                                                *)
(***************************************************************************)
InitRows ==
  /\ ClassifyIdle
  /\ OneIdle
  /\ FetchIdle
  /\ ProvIdle
  /\ FilterIdle
  /\ ReadIdle
  /\ store = [collection |-> TRUE, index |-> TRUE]
  /\ points = <<>>
  /\ csvRows \in RowLists
  /\ validRecords = <<>>
  /\ pcIngest = "start"
  /\ iIngest = 0
  /\ pointPromises = <<>>
  /\ embedded = <<>>
  /\ embedStarted = {}
  /\ upserts = <<>>
  /\ ingestErr = "none"
  /\ storeOps = {}
  /\ runs = 1
  /\ lastWrite = [d \in Ids |-> <<>>]

NextRows ==
  \/ \E a \in {"ok", "unavailable"} : IngestBegin(a)
  \/ IngestStartBatch
  \/ \E k \in 1..batchSize, a \in {"ok", "fail"} : Embed(k, a)
  \/ IngestAwaitAll
  \/ \E a \in {"ok", "unavailable"} : UpsertDone(a)
  \/ IngestFinish

SpecRows == InitRows /\ [][NextRows]_vars

(***************************************************************************)
(* The whole pipeline: the rows of the categorized CSV are the records     *)
(* categorizeRecords returned, flattened and written by it, and one run of *)
(* ingestEmbeddingsFromCsv reads them back.                                *)
(***************************************************************************)
PipelineResponses ==
  {Threw,
   Said(<<Obj(Analysis(<<>>, "why"))>>),
   Said(<<Obj(Analysis(<<Entry("NLP", 60), Entry("DL", 90)>>, "why"))>>),
   Said(<<Txt, Obj(Analysis(<<Entry("", 90), Entry("NLP", 90)>>, "why")), Txt>>)}

(* csvCleaner.ts lines 204-221: category_analysis becomes the column       *)
(* category_analysis_json, JSON.stringify of the analysis; the other       *)
(* columns are written as they are, and csv-parse reads every column back  *)
(* as a string                                                             *)
flatten(record) ==
  [id |-> record.id, text |-> record.text, category |-> record.category, missing |-> {},
   category_analysis_json |->
     IF record.category_analysis # <<>>
     THEN <<Obj(Analysis(record.category_analysis[1].categories,
                         record.category_analysis[1].reasoning))>>
     ELSE <<>>]

PipelineRows ==
  {flatten(categorizeOne(rec, resp)) : rec \in RecordUniverse, resp \in PipelineResponses}

PipelineLists == UNION {[1..n -> PipelineRows] : n \in 0..MaxValid}

InitPipeline ==
  /\ ClassifyIdle
  /\ OneIdle
  /\ FetchIdle
  /\ ProvIdle
  /\ FilterIdle
  /\ ReadIdle
  /\ store = [collection |-> TRUE, index |-> TRUE]
  /\ points = <<>>
  /\ csvRows \in PipelineLists
  /\ validRecords = <<>>
  /\ pcIngest = "start"
  /\ iIngest = 0
  /\ pointPromises = <<>>
  /\ embedded = <<>>
  /\ embedStarted = {}
  /\ upserts = <<>>
  /\ ingestErr = "none"
  /\ storeOps = {}
  /\ runs = 1
  /\ lastWrite = [d \in Ids |-> <<>>]

SpecPipeline == InitPipeline /\ [][NextRows]_vars

(***************************************************************************)
(* JavaScript values of the read path.  A value is an object or a string;  *)
(* a string is a text (tokens, as above) inside `depth` levels of JSON     *)
(* string quoting: JSON.stringify of a string adds a level, JSON.parse of  *)
(* a quoted string removes one and gives a string back.                    *)
(***************************************************************************)
ObjVal(v) == [kind |-> "object", depth |-> 0, toks |-> <<>>, obj |-> v]

StrVal(text, n) == [kind |-> "string", depth |-> n, toks |-> text, obj |-> EmptyObject]

(* JSON.stringify(x) *)
stringify(x) ==
  IF x.kind = "object" THEN StrVal(<<Obj(x.obj)>>, 0) ELSE StrVal(x.toks, x.depth + 1)

(* JSON.parse(x) of a string x: <<the value>>, or <<>> for a SyntaxError *)
parse(x) ==
  IF x.depth > 0 THEN <<StrVal(x.toks, x.depth - 1)>>
  ELSE IF JSONparse(x.toks) # <<>> THEN <<ObjVal(JSONparse(x.toks)[1])>>
  ELSE <<>>

(* the truthiness of a value: an object is truthy, a string unless it is empty *)
truthy(x) == x.kind = "object" \/ x.depth > 0 \/ x.toks # <<>>

(***************************************************************************)
(* The strings the criteria look into, by their characters.                *)
(***************************************************************************)
Chars(str) ==
  CASE str = "" -> <<>>
    [] str = "Deep Nets" -> <<"D", "e", "e", "p", " ", "N", "e", "t", "s">>
    [] str = "parsing" -> <<"p", "a", "r", "s", "i", "n", "g">>
    [] str = "why" -> <<"w", "h", "y">>
    [] str = "deep" -> <<"d", "e", "e", "p">>
    [] str = "NETS" -> <<"N", "E", "T", "S">>
    [] str = "x" -> <<"x">>

Lower(c) ==
  CASE c = "D" -> "d" [] c = "N" -> "n" [] c = "E" -> "e" [] c = "T" -> "t"
    [] c = "S" -> "s" [] OTHER -> c

(* String.prototype.toLowerCase *)
toLowerCase(cs) == [k \in 1..Len(cs) |-> Lower(cs[k])]

(* String.prototype.includes *)
includes(hay, needle) ==
  \E k \in 0..(Len(hay) - Len(needle)) : SubSeq(hay, k + 1, k + Len(needle)) = needle

(***************************************************************************)
(* getDocumentsFromQdrant(), as advancedFiltering sees it: a payload is    *)
(* [category, category_analysis], category_analysis <<>> (null) or <<x>>.  *)
(***************************************************************************)
(* lines 356-371: the metadata of the document of the k-th point *)
Metadata(k, payload) ==
  [id |-> k,
   category |-> payload.category,
   category_analysis |->
     IF payload.category_analysis # <<>> /\ truthy(payload.category_analysis[1])
     THEN <<stringify(payload.category_analysis[1])>>
     ELSE <<>>]

(***************************************************************************)
(* advancedFiltering: the callback of documents.filter, block by block.    *)
(* A block answers "pass", "reject", or "throw" (a TypeError).             *)
(***************************************************************************)
(* faulty variant: the main category is never compared *)
byMainCategoryOff(doc, opt) == "pass"

(* line 63 *)
byMainCategory(doc, opt) ==
  IF opt.mainCategory # <<>> /\ opt.mainCategory[1] # "" /\ doc.category # opt.mainCategory[1]
  THEN "reject" ELSE "pass"

(* line 68: !options.categories && !options.minScore && !options.reasoningKeywords *)
noOtherFilter(opt) ==
  /\ opt.categories = <<>>
  /\ opt.minScore = <<>> \/ opt.minScore[1] = 0
  /\ opt.reasoningKeywords = <<>>

(* lines 73-83: [thrown, value]; value is <<>> for undefined *)
decode(doc) ==
  IF doc.category_analysis = <<>> \/ ~truthy(doc.category_analysis[1])
  THEN [thrown |-> FALSE, value |-> <<>>]
  ELSE IF doc.category_analysis[1].kind = "string"
       THEN IF parse(doc.category_analysis[1]) = <<>>
            THEN [thrown |-> TRUE, value |-> <<>>]
            ELSE [thrown |-> FALSE, value |-> parse(doc.category_analysis[1])]
       ELSE [thrown |-> FALSE, value |-> doc.category_analysis]

(* categoryAnalysis.categories: <<>> when the value has no such property *)
categoriesOf(x) ==
  IF x.kind = "object" /\ "categories" \in x.obj.fields THEN <<x.obj.categories>> ELSE <<>>

(* categoryAnalysis.reasoning: "" when the value has no such property *)
reasoningOf(x) ==
  IF x.kind = "object" /\ "reasoning" \in x.obj.fields THEN x.obj.reasoning ELSE ""

(* faulty variant: the categories are never compared *)
byCategoriesOff(x, opt) == "pass"

(* lines 89-96 *)
byCategories(x, opt) ==
  IF opt.categories # <<>> /\ Len(opt.categories[1]) > 0
  THEN IF categoriesOf(x) = <<>> THEN "throw"
       ELSE IF \E c \in 1..Len(opt.categories[1]) : \E e \in 1..Len(categoriesOf(x)[1]) :
                 categoriesOf(x)[1][e].name = opt.categories[1][c]
            THEN "pass" ELSE "reject"
  ELSE "pass"

(* line 100: cat.score >= options.minScore *)
scoreReaches(score, minScore) == score >= minScore

(* lines 98-104 *)
byMinScore(x, opt) ==
  IF opt.minScore # <<>>
  THEN IF categoriesOf(x) = <<>> THEN "throw"
       ELSE IF \E e \in 1..Len(categoriesOf(x)[1]) :
                 scoreReaches(categoriesOf(x)[1][e].score, opt.minScore[1])
            THEN "pass" ELSE "reject"
  ELSE "pass"

(* lines 106-115 *)
byKeywords(x, opt) ==
  IF opt.reasoningKeywords # <<>> /\ Len(opt.reasoningKeywords[1]) > 0 /\ reasoningOf(x) # ""
  THEN IF \E w \in 1..Len(opt.reasoningKeywords[1]) :
            includes(toLowerCase(Chars(reasoningOf(x))),
                     toLowerCase(Chars(opt.reasoningKeywords[1][w])))
       THEN "pass" ELSE "reject"
  ELSE "pass"

(* lines 61-117: "keep", "drop", or "throw" *)
keep(doc, opt) ==
  IF byMainCategory(doc, opt) = "reject" THEN "drop"
  ELSE IF noOtherFilter(opt) THEN "keep"
  ELSE IF decode(doc).thrown \/ decode(doc).value = <<>> \/ ~truthy(decode(doc).value[1])
       THEN "drop"
  ELSE LET x == decode(doc).value[1]
       IN  IF byCategories(x, opt) # "pass"
           THEN (IF byCategories(x, opt) = "throw" THEN "throw" ELSE "drop")
           ELSE IF byMinScore(x, opt) # "pass"
           THEN (IF byMinScore(x, opt) = "throw" THEN "throw" ELSE "drop")
           ELSE IF byKeywords(x, opt) = "pass" THEN "keep" ELSE "drop"

(* .slice(0, options.limit || Infinity) *)
sliceLimit(docs, lim) ==
  IF lim # <<>> /\ lim[1] # 0 /\ lim[1] < Len(docs) THEN SubSeq(docs, 1, lim[1]) ELSE docs

(* lines 61-118: documents.filter(...).slice(...); a throw of the callback ends the call *)
filterDocuments(docs, opt) ==
  IF \E k \in 1..Len(docs) : keep(docs[k], opt) = "throw"
  THEN [err |-> "TypeError", docs |-> <<>>]
  ELSE [err |-> "none",
        docs |-> sliceLimit(SelectSeq(docs, LAMBDA doc : keep(doc, opt) = "keep"), opt.limit)]

(***************************************************************************)
(* The collections advancedFiltering is run on: the payloads the pipeline  *)
(* writes (category and category_analysis of one classification, or the    *)
(* sentinel and null), and the criteria its schema accepts.                *)
(***************************************************************************)
MaxDocs == 2

StoredPayloads ==
  {[category |-> "DL",
    category_analysis |-> <<ObjVal(Analysis(<<Entry("DL", 90), Entry("NLP", 60)>>, "Deep Nets"))>>],
   [category |-> "NLP",
    category_analysis |-> <<ObjVal(Analysis(<<Entry("NLP", 60)>>, ""))>>],
   [category |-> Uncategorized,
    category_analysis |-> <<ObjVal(Analysis(<<>>, "parsing"))>>],
   [category |-> Uncategorized, category_analysis |-> <<>>]}

StoredLists == UNION {[1..n -> StoredPayloads] : n \in 0..MaxDocs}

AllOptions ==
  [mainCategory : {<<>>, <<"">>, <<"DL">>},
   categories : {<<>>, << <<>> >>, << <<"DL">> >>, << <<"dl", "NLP">> >>},
   minScore : {<<>>, <<0>>, <<60>>, <<100>>},
   reasoningKeywords : {<<>>, << <<>> >>, << <<"deep">> >>, << <<"x", "NETS">> >>},
   limit : {<<>>} \cup {<<n>> : n \in 1..MaxDocs}]

InitFilter ==
  /\ ClassifyIdle
  /\ OneIdle
  /\ StoreIdle
  /\ FetchIdle
  /\ ProvIdle
  /\ IngestIdle
  /\ stored \in StoredLists
  /\ options \in AllOptions
  /\ retrieved = <<>>
  /\ filtered = <<>>
  /\ ReadIdle

(* lines 58-119: getDocumentsFromQdrant() answers, or throws; then filter and slice *)
AdvancedFiltering(a) ==
  /\ filtered = <<>>
  /\ IF a = "ok"
     THEN /\ retrieved' = [k \in 1..Len(stored) |-> Metadata(k, stored[k])]
          /\ filtered' = <<filterDocuments(retrieved', options)>>
     ELSE /\ retrieved' = <<>>
          /\ filtered' = <<[err |-> a, docs |-> <<>>]>>
  /\ UNCHANGED <<stored, options>>
  /\ UNCHANGED notFilter

NextFilter == \E a \in {"ok", "unavailable"} : AdvancedFiltering(a)

SpecFilter == InitFilter /\ [][NextFilter]_vars

(***************************************************************************)
(* The read paths over a collection whose category_analysis payloads are   *)
(* held as a structured value, as a JSON-encoded string, as a string that  *)
(* is not JSON, or not at all: GET /documents (getDocumentsFromQdrant and  *)
(* the controller), semanticSearch, and advancedFiltering.                 *)
(***************************************************************************)
ReadPayloads ==
  StoredPayloads \cup
  {[category |-> "DL",
    category_analysis |-> <<StrVal(<<Obj(Analysis(<<Entry("DL", 90)>>, "why"))>>, 0)>>],
   [category |-> "DL", category_analysis |-> <<StrVal(<<Txt>>, 0)>>],
   [category |-> "DL", category_analysis |-> <<ObjVal(EmptyObject)>>]}

ReadLists == UNION {[1..n -> ReadPayloads] : n \in 0..MaxDocs}

ReadOptions ==
  {NoOptions,
   [NoOptions EXCEPT !.minScore = <<60>>],
   [NoOptions EXCEPT !.categories = << <<"DL">> >>],
   [NoOptions EXCEPT !.reasoningKeywords = << <<"deep">> >>]}

(* documentsController.ts lines 31-41: undefined (<<>>) when absent or when JSON.parse throws *)
controllerDecode(doc) ==
  IF doc.category_analysis = <<>> \/ ~truthy(doc.category_analysis[1]) THEN <<>>
  ELSE IF doc.category_analysis[1].kind = "string" THEN parse(doc.category_analysis[1])
  ELSE doc.category_analysis

(* retrieval.ts lines 81-90 *)
searchDecode(payload, includeReasoning) ==
  IF payload.category_analysis # <<>> /\ truthy(payload.category_analysis[1]) /\ includeReasoning
  THEN IF payload.category_analysis[1].kind = "string"
       THEN parse(payload.category_analysis[1])
       ELSE payload.category_analysis
  ELSE <<>>

(* the positions of the points a scroll or a search with this category filter answers from *)
InCategory(cat) ==
  SelectSeq([k \in 1..Len(stored) |-> k],
            LAMBDA k : cat = <<>> \/ cat[1] = "" \/ stored[k].category = cat[1])

InitRead ==
  /\ ClassifyIdle
  /\ OneIdle
  /\ StoreIdle
  /\ FetchIdle
  /\ ProvIdle
  /\ IngestIdle
  /\ stored \in ReadLists
  /\ options \in ReadOptions
  /\ retrieved = <<>>
  /\ filtered = <<>>
  /\ caller = "none"
  /\ handed = <<>>
  /\ answered = "none"
  /\ reply = <<>>

(* documentsController.getDocuments, lines 19-59 *)
GetDocuments(a, cat) ==
  /\ caller = "none"
  /\ caller' = "getDocuments"
  /\ IF a = "ok"
     THEN handed' =
            <<[err |-> "none", includeReasoning |-> TRUE,
               docs |-> [j \in 1..Len(InCategory(cat)) |->
                           LET k == InCategory(cat)[j]
                           IN  [id |-> k,
                                category_analysis |-> controllerDecode(Metadata(k, stored[k]))]]]>>
     ELSE handed' = <<[err |-> a, includeReasoning |-> TRUE, docs |-> <<>>]>>
  /\ UNCHANGED <<reply, filterVars>>
  /\ answered' = a
  /\ UNCHANGED notRead

(* semanticSearch, retrieval.ts lines 48-109: the store answers the hits, most similar first *)
SemanticSearch(a, cat, hits, includeReasoning) ==
  /\ caller = "none"
  /\ caller' = "semanticSearch"
  /\ IF a = "ok"
     THEN LET found == SelectSeq(InCategory(cat), LAMBDA k : k \in hits)
          IN  handed' =
                <<[err |-> "none", includeReasoning |-> includeReasoning,
                   docs |-> [j \in 1..Len(found) |->
                               [id |-> found[j],
                                category_analysis |->
                                  searchDecode(stored[found[j]], includeReasoning)]]]>>
     ELSE handed' = <<[err |-> a, includeReasoning |-> includeReasoning, docs |-> <<>>]>>
  /\ UNCHANGED <<reply, filterVars>>
  /\ answered' = a
  /\ UNCHANGED notRead

NextRead ==
  \/ \E a \in {"ok", "unavailable"}, cat \in {<<>>, <<"DL">>} : GetDocuments(a, cat)
  \/ \E a \in {"ok", "unavailable"}, cat \in {<<>>, <<"DL">>}, hits \in SUBSET (1..MaxDocs),
        r \in BOOLEAN : SemanticSearch(a, cat, hits, r)
  \/ \E a \in {"ok", "unavailable"} : AdvancedFiltering(a)

SpecRead == InitRead /\ [][NextRead]_vars

(***************************************************************************)
(* POST /search/advanced, routes/search.ts lines 175-225.  The request is  *)
(* `options` (category is its mainCategory; limit has the default of the   *)
(* body schema, so it is always a number); `hits` are the points the       *)
(* vector search finds for the query above scoreThreshold, at most         *)
(* limit * 2 of them, most similar first.                                  *)
(***************************************************************************)
AdvancedOptions ==
  {[mainCategory |-> m, categories |-> c, minScore |-> s, reasoningKeywords |-> w,
    limit |-> <<l>>] :
     m \in {<<>>, <<"DL">>},
     c \in {<<>>, << <<>> >>, << <<"NLP">> >>},
     s \in {<<>>, <<60>>},
     w \in {<<>>, << <<"deep">> >>},
     l \in 1..MaxDocs}

(* line 192: (categories && categories.length > 0) || minScore !== undefined || ... *)
hasCriteria(opt) ==
  \/ opt.categories # <<>> /\ Len(opt.categories[1]) > 0
  \/ opt.minScore # <<>>
  \/ opt.reasoningKeywords # <<>> /\ Len(opt.reasoningKeywords[1]) > 0

(* the documents of semanticSearch: each carries the similarity score of its hit *)
semanticResults(cat, hits) ==
  LET found == SelectSeq(InCategory(cat), LAMBDA k : k \in hits)
  IN  [j \in 1..Len(found) |-> [id |-> found[j], score |-> TRUE]]

(* the documents of advancedFiltering: metadata of getDocumentsFromQdrant, without score *)
unscored(docs) == [j \in 1..Len(docs) |-> [id |-> docs[j].id, score |-> FALSE]]

InitAdvanced ==
  /\ ClassifyIdle
  /\ OneIdle
  /\ StoreIdle
  /\ FetchIdle
  /\ ProvIdle
  /\ IngestIdle
  /\ stored \in StoredLists
  /\ options \in AdvancedOptions
  /\ retrieved = <<>>
  /\ filtered = <<>>
  /\ caller = "none"
  /\ handed = <<>>
  /\ reply = <<>>
  /\ answered = "none"

SearchAdvanced(a, b, hits) ==
  /\ caller = "none"
  /\ caller' = "searchAdvanced"
  /\ Cardinality(hits) <= options.limit[1] * 2
  /\ answered' = a
  /\ IF a # "ok"
     THEN /\ handed' = <<[err |-> a, includeReasoning |-> TRUE, docs |-> <<>>]>>
          /\ reply' = <<[status |-> 500, documents |-> <<>>]>>
          /\ UNCHANGED <<retrieved, filtered>>
     ELSE /\ handed' = <<[err |-> "none", includeReasoning |-> TRUE,
                          docs |-> semanticResults(options.mainCategory, hits)]>>
          /\ IF hasCriteria(options)
             THEN IF b # "ok"
                  THEN /\ retrieved' = <<>>
                       /\ filtered' = <<[err |-> b, docs |-> <<>>]>>
                       /\ reply' = <<[status |-> 500, documents |-> <<>>]>>
                  ELSE /\ retrieved' = [k \in 1..Len(stored) |-> Metadata(k, stored[k])]
                       /\ filtered' = <<filterDocuments(retrieved', options)>>
                       /\ reply' =
                            IF filtered'[1].err # "none"
                            THEN <<[status |-> 500, documents |-> <<>>]>>
                            ELSE <<[status |-> 200,
                                    documents |-> sliceLimit(unscored(filtered'[1].docs),
                                                             options.limit)]>>
             ELSE /\ reply' = <<[status |-> 200,
                                 documents |-> sliceLimit(handed'[1].docs, options.limit)]>>
                  /\ UNCHANGED <<retrieved, filtered>>
  /\ UNCHANGED <<stored, options>>
  /\ UNCHANGED notRead

NextAdvanced ==
  \E a \in {"ok", "unavailable"}, b \in {"ok", "unavailable"}, hits \in SUBSET (1..MaxDocs) :
    SearchAdvanced(a, b, hits)

SpecAdvanced == InitAdvanced /\ [][NextAdvanced]_vars

(***************************************************************************)
(* One call of fetch, of search or of the upsert pipeline, against a store *)
(* that may fail any of its calls.                                         *)
(***************************************************************************)
InitStoreErrors == InitFetch \/ InitRead \/ InitRows

NextStoreErrors ==
  \/ NextFetchFaults
  \/ NextRows
  \/ /\ FetchIdle
     /\ IngestIdle
     /\ \E a \in {"ok", "unavailable"}, cat \in {<<>>, <<"DL">>}, hits \in SUBSET (1..MaxDocs),
           r \in BOOLEAN : SemanticSearch(a, cat, hits, r)

SpecStoreErrors == InitStoreErrors /\ [][NextStoreErrors]_vars

(***************************************************************************)
(*                              PROPERTIES                                 *)
(***************************************************************************)

(* what the claims call a failing answer, stated on the answer itself *)
FailsShape(v) ==
  \/ "categories" \notin v.fields
  \/ "reasoning" \notin v.fields
  \/ \E k \in 1..Len(v.categories) : v.categories[k].score < 0 \/ v.categories[k].score > 100

Failed(r) ==
  \/ r.throws
  \/ \A k \in 1..Len(r.text) : r.text[k].t # "obj"
  \/ \E k \in 1..Len(r.text) : r.text[k].t = "obj" /\ FailsShape(r.text[k].v)

(***************************************************************************)
(* C1 - bulkhead isolation.  With the API key configured the job never     *)
(* fails, and when it is done it has returned every record; every merged   *)
(* record whose call threw, answered without a JSON object or answered an  *)
(* object that fails the schema carries the sentinel category and no       *)
(* category_analysis; and every merged record is what its own record and   *)
(* its own answer give, whatever the other calls answered.                 *)
(***************************************************************************)
C1_Bulkhead ==
  /\ apiKey => pcClassify # "failed"
  /\ pcClassify = "done" => Len(categorizedRecords) = Len(records)
  /\ \A k \in 1..Len(categorizedRecords) :
       /\ response[k] # <<>>
       /\ Failed(response[k][1]) =>
            /\ categorizedRecords[k].category = Uncategorized
            /\ categorizedRecords[k].category_analysis = <<>>
       /\ categorizedRecords[k] = categorizeOne(records[k], response[k][1])

(* a finished job in which a record failed and a record of the same batch got its analysis *)
C1_Witness ==
  /\ pcClassify = "done"
  /\ \E j, k \in 1..Len(categorizedRecords) :
       /\ j # k
       /\ BatchOf(j) = BatchOf(k)
       /\ Failed(response[j][1])
       /\ categorizedRecords[k].category_analysis # <<>>

(***************************************************************************)
(* C2 - same length, same order.  The output is at every moment a prefix   *)
(* of the input by id, and the finished job returns one record per input   *)
(* record, the i-th with the id of the i-th input.                         *)
(***************************************************************************)
C2_SameLengthAndOrder ==
  /\ Len(categorizedRecords) <= Len(records)
  /\ \A k \in 1..Len(categorizedRecords) : categorizedRecords[k].id = records[k].id
  /\ pcClassify = "done" => Len(categorizedRecords) = Len(records)

(* a finished job over a list that is longer than a batch and not a whole number of batches *)
C2_Witness ==
  /\ pcClassify = "done"
  /\ Len(records) > batchSize
  /\ Len(records) % batchSize # 0
  /\ \E j, k \in 1..Len(records) : records[j].id # records[k].id
  /\ Len(categorizedRecords) = Len(records)

(***************************************************************************)
(* C5 - bounded concurrency.  At most batchSize classifier calls are in    *)
(* flight, and a call of a batch is issued only when every call of every   *)
(* earlier batch has returned.                                             *)
(***************************************************************************)
C5_BoundedConcurrency ==
  /\ Cardinality(inFlight) <= batchSize
  /\ \A j \in started : \A k \in 1..Len(records) :
       BatchOf(k) < BatchOf(j) => k \in completed

(* the second batch of a job with all of its calls in flight *)
C5_Witness ==
  /\ pcClassify = "await"
  /\ i > 0
  /\ Cardinality(inFlight) = batchSize

(* the JSON object of an answer, and the first entry of maximal score of a list *)
ClassifierObject(r) == r.text[CHOOSE k \in 1..Len(r.text) : r.text[k].t = "obj"].v

FirstMax(cats) ==
  CHOOSE k \in 1..Len(cats) :
    /\ \A j \in 1..Len(cats) : cats[j].score <= cats[k].score
    /\ \A j \in 1..(k - 1) : cats[j].score < cats[k].score

(***************************************************************************)
(* C6 - primary category.  A record that got a category_analysis has the   *)
(* name of the first entry of maximal score of the classifier's list as    *)
(* its category, or the sentinel when that list is empty; a record without *)
(* category_analysis has the sentinel.                                     *)
(***************************************************************************)
C6_PrimaryCategory ==
  result # <<>> =>
    IF result[1].category_analysis = <<>>
    THEN result[1].category = Uncategorized
    ELSE LET cats == ClassifierObject(one.response).categories
         IN IF cats = <<>>
            THEN result[1].category = Uncategorized
            ELSE result[1].category = cats[FirstMax(cats)].name

(* a classified record whose list has two entries of the same maximal score and different names *)
C6_Witness ==
  /\ result # <<>>
  /\ result[1].category_analysis # <<>>
  /\ LET cats == ClassifierObject(one.response).categories
     IN /\ Len(cats) >= 2
        /\ cats[1].score = cats[2].score
        /\ cats[1].name # cats[2].name
        /\ FirstMax(cats) = 1
        /\ result[1].category = cats[1].name

(***************************************************************************)
(* C7 - every record returned by the classification has a non-empty        *)
(* category.                                                               *)
(***************************************************************************)
C7_NonEmptyCategory ==
  \A k \in 1..Len(categorizedRecords) : categorizedRecords[k].category # ""

(***************************************************************************)
(* C3 - fallback equivalence.  A fetch with a category filter never throws *)
(* the index-missing error, and when it is done it returns the stored      *)
(* points of that category, each once and in scroll order: the result of   *)
(* the filtered scroll, whether the store served it or the fallback did.   *)
(***************************************************************************)
C3_FallbackEquivalence ==
  Filter # <<>> =>
    /\ fetchErr # "index_missing"
    /\ pcFetch = "done" =>
         /\ allPoints = Matching(Filter)
         /\ documents = ToDocuments(Matching(Filter))

(* a fetch by category done through the fallback, over several pages, that kept some points and left some *)
C3_Witness ==
  /\ pcFetch = "done"
  /\ Filter # <<>>
  /\ ~store.index
  /\ Len(pages) >= 2
  /\ allPoints # <<>>
  /\ Len(allPoints) < Len(points)

(***************************************************************************)
(* C8 - unfiltered pagination.  Without a filter, every page but the last  *)
(* one returned is full (no scroll follows a short page), the number of    *)
(* scroll calls is at most n / limit + 1, and a finished fetch returns the  *)
(* stored points, each once.                                               *)
(***************************************************************************)
C8_UnfilteredPagination ==
  Filter = <<>> =>
    /\ \A j \in 1..(Len(pages) - 1) : pages[j] = limit
    /\ Len(pages) <= (Len(points) \div limit) + 1
    /\ pcFetch = "done" =>
         /\ allPoints = points
         /\ documents = ToDocuments(points)

(* a finished unfiltered fetch of a collection of exactly two full pages *)
C8_Witness ==
  /\ pcFetch = "done"
  /\ Filter = <<>>
  /\ Len(points) = 2 * limit
  /\ pages = <<limit, limit, 0>>

(***************************************************************************)
(* C4 - concurrent provisioning.  No call of ensureCollection ends by      *)
(* throwing the store's "already exists" answer.                           *)
(***************************************************************************)
C4_AlreadyExistsBenign ==
  \A p \in Procs :
    ~(op[p] = "ensureCollection" /\ pcProv[p] = "raised" /\ provErr[p] = "exists")

(* process p just ended a call of ensureCollection that follows, with nothing in between, a call
   of ensureCollection that ended well against a store that answered every call *)
SecondInARow(p) ==
  /\ pcProv[p] \in {"done", "raised"}
  /\ op[p] = "ensureCollection"
  /\ prev[p] # <<>>
  /\ prev[p][1].op = "ensureCollection"
  /\ prev[p][1].pc = "done"
  /\ prev[p][1].faults = {}
  /\ \A q \in Procs \ {p} : calls[q] = 0
  /\ "list" \notin faults[p]

(***************************************************************************)
(* C9 - idempotence.  A call of ensureCollection that follows a call that  *)
(* ended well against a healthy store, with nothing in between, does not   *)
(* throw and leaves the store as the first call left it (the collection    *)
(* and its index exist), whatever the store answers to createPayloadIndex. *)
(***************************************************************************)
C9_Idempotent ==
  \A p \in Procs :
    SecondInARow(p) =>
      /\ pcProv[p] = "done"
      /\ store = prev[p][1].store
      /\ store.collection /\ store.index

(* such a second call, whose createPayloadIndex the store answered with an error *)
C9_Witness ==
  \E p \in Procs : SecondInARow(p) /\ indexAnswer[p] = "other"

(***************************************************************************)
(* C10, as claimed - on every path that creates the index, "already        *)
(* exists" is success and any other error reaches the caller.              *)
(***************************************************************************)
C10_OtherErrorFatalEverywhere ==
  \A p \in Procs :
    pcProv[p] \in {"done", "raised"} =>
      /\ indexAnswer[p] = "exists" => pcProv[p] = "done"
      /\ indexAnswer[p] = "other" => pcProv[p] = "raised"

(***************************************************************************)
(* C10, amended - in addCategoryIndex "already exists" is success and any  *)
(* other error of createPayloadIndex reaches the caller; in                *)
(* ensureCollection no answer to createPayloadIndex makes the call throw.  *)
(***************************************************************************)
C10_IndexErrorPolicy ==
  \A p \in Procs :
    (pcProv[p] \in {"done", "raised"} /\ indexAnswer[p] # "none") =>
      IF op[p] = "addCategoryIndex"
      THEN /\ indexAnswer[p] \in {"ok", "exists"} => pcProv[p] = "done"
           /\ indexAnswer[p] = "other" => pcProv[p] = "raised" /\ provErr[p] = "other"
      ELSE pcProv[p] = "done" /\ provErr[p] = "none"

(* addCategoryIndex threw the store's error while ensureCollection ended well on the same answer *)
C10_Witness ==
  \E p, q \in Procs :
    /\ op[p] = "addCategoryIndex" /\ pcProv[p] = "raised" /\ indexAnswer[p] = "other"
    /\ op[q] = "ensureCollection" /\ pcProv[q] = "done" /\ indexAnswer[q] = "other"

(***************************************************************************)
(* Ingestion: the batches of the run, the input positions of a batch, the  *)
(* points of the records of a batch whose embedding call succeeded, in     *)
(* input order, and whether the batch's Promise.all was taken.             *)
(***************************************************************************)
Batches == 0..((Len(validRecords) - 1) \div batchSize)

PositionsOf(b) == {k \in 1..Len(validRecords) : BatchOf(k) = b}

SurvivorsOf(b) ==
  LET idx == SelectSeq([k \in 1..Len(validRecords) |-> k],
                       LAMBDA k : BatchOf(k) = b /\ embedded[k] = "ok")
  IN  [j \in 1..Len(idx) |-> MakePoint(validRecords[idx[j]])]

CallsOf(b) == SelectSeq(upserts, LAMBDA c : c.batch = b)

Merged(b) ==
  /\ \A k \in PositionsOf(b) : embedded[k] # "none"
  /\ ~(pcIngest = "await" /\ iIngest \div batchSize = b)

WrittenBatches == {upserts[c].batch : c \in {n \in 1..Len(upserts) : upserts[n].done}}

(***************************************************************************)
(* C11 - upsert pipeline isolation.  A batch whose calls have all returned *)
(* has exactly one upsert call when a record of it survived, holding the   *)
(* points of the surviving records in input order, and none when no record *)
(* survived; no call is issued before; once its call completed every       *)
(* surviving record has its point in the store; a failed embedding never   *)
(* fails the run, which ends only after every batch was taken.             *)
(***************************************************************************)
C11_Isolation ==
  /\ \A b \in Batches :
       /\ ~Merged(b) => CallsOf(b) = <<>>
       /\ Merged(b) /\ SurvivorsOf(b) = <<>> => CallsOf(b) = <<>>
       /\ Merged(b) /\ SurvivorsOf(b) # <<>> =>
            /\ Len(CallsOf(b)) = 1
            /\ CallsOf(b)[1].points = SurvivorsOf(b)
       /\ b \in WrittenBatches =>
            \A j \in 1..Len(SurvivorsOf(b)) :
              \E k \in 1..Len(points) : points[k].id = SurvivorsOf(b)[j].id
  /\ pcIngest = "failed" /\ Len(validRecords) > 0 => ingestErr = "unavailable"
  /\ pcIngest = "failed" /\ iIngest > 0 => upserts # <<>> /\ ~upserts[Len(upserts)].done
  /\ pcIngest = "done" => \A b \in Batches : Merged(b)

(* a finished run of two batches: one record of the first failed, the second had no survivor *)
C11_Witness ==
  /\ pcIngest = "done"
  /\ embedded = <<"fail", "ok", "fail">>
  /\ Len(upserts) = 1
  /\ upserts[1].points = <<MakePoint(validRecords[2])>>
  /\ upserts[1].done

(* the batches are taken one after the other: embedding calls, then the upsert *)
C12_Sequential ==
  \A k \in embedStarted :
    /\ \A b \in Batches : b < BatchOf(k) => Merged(b)
    /\ \A c \in 1..Len(upserts) : upserts[c].batch < BatchOf(k) => upserts[c].done

(***************************************************************************)
(* C12 - cross-batch ordering.  When an embedding call of a batch has been *)
(* started, every earlier batch was taken in full and every upsert call of *)
(* an earlier batch has completed; and every batch before a written batch  *)
(* is written too, or had no surviving record.                             *)
(***************************************************************************)
C12_BatchOrder ==
  /\ C12_Sequential
  /\ \A b \in WrittenBatches : \A e \in Batches :
       e < b => e \in WrittenBatches \/ (Merged(e) /\ SurvivorsOf(e) = <<>>)

(* C12 as stated: the written batches are a prefix of the batch sequence *)
C12_WrittenPrefix ==
  /\ C12_Sequential
  /\ \A b \in WrittenBatches : \A e \in Batches : e < b => e \in WrittenBatches

(* the second batch's upsert is in flight after the first batch's completed *)
C12_Witness ==
  /\ pcIngest = "upsert"
  /\ Len(upserts) = 2
  /\ upserts[1].done /\ upserts[1].batch = 0
  /\ ~upserts[2].done /\ upserts[2].batch = 1

(***************************************************************************)
(* C13 - upsert idempotence.  After any runs, interrupted or not, over any *)
(* rows, the store holds one point for an id that was written and none for *)
(* an id that never was, and the point carries the payload of the last     *)
(* completed write of its id.                                              *)
(***************************************************************************)
C13_OnePointPerId ==
  \A d \in Ids :
    LET at == {k \in 1..Len(points) : points[k].id = d}
    IN  /\ Cardinality(at) = IF lastWrite[d] = <<>> THEN 0 ELSE 1
        /\ \A k \in at : points[k].payload = lastWrite[d][1]

(* a second run is over, on rows that hold the same id twice with two payloads *)
C13_Witness ==
  /\ runs = 2
  /\ pcIngest = "done"
  /\ Len(validRecords) = 3
  /\ validRecords[2].id = validRecords[3].id
  /\ validRecords[2].text # validRecords[3].text
  /\ \A k \in 1..3 : embedded[k] = "ok"
  /\ Len(points) = 2

(***************************************************************************)
(* The compound filter: what the stored payloads say about the k-th        *)
(* record, and the criteria as the specification words them.               *)
(***************************************************************************)
FilterDone == filtered # <<>> /\ filtered[1].err = "none"

ResultIds == [j \in 1..Len(filtered[1].docs) |-> filtered[1].docs[j].id]

HasAnalysis(k) == stored[k].category_analysis # <<>>

EntriesOf(k) == stored[k].category_analysis[1].obj.categories

ReasonOf(k) == stored[k].category_analysis[1].obj.reasoning

IdsWhere(P(_)) == SelectSeq([k \in 1..Len(stored) |-> k], P)

FirstN(s, lim) == IF lim # <<>> /\ lim[1] < Len(s) THEN SubSeq(s, 1, lim[1]) ELSE s

ContainsCI(text, word) ==
  LET t == Chars(text)
      w == Chars(word)
  IN  \E off \in 0..(Len(t) - Len(w)) : \A n \in 1..Len(w) : Lower(t[off + n]) = Lower(w[n])

NamesMeet(k, given) ==
  \E c \in 1..Len(given) : \E e \in 1..Len(EntriesOf(k)) : EntriesOf(k)[e].name = given[c]

ScoreMeets(k, minScore) == \E e \in 1..Len(EntriesOf(k)) : EntriesOf(k)[e].score >= minScore

KeywordMeets(k, words) == \E w \in 1..Len(words) : ContainsCI(ReasonOf(k), words[w])

(***************************************************************************)
(* C14 - the filter fails closed.  When categories, minScore (0 included)  *)
(* or reasoningKeywords is given, no record without category_analysis is   *)
(* in the result.                                                          *)
(***************************************************************************)
C14_FailsClosed ==
  FilterDone =>
    (options.categories # <<>> \/ options.minScore # <<>> \/ options.reasoningKeywords # <<>>
       => \A j \in 1..Len(ResultIds) : HasAnalysis(ResultIds[j]))

(***************************************************************************)
(* C15 - reasoningKeywords.  When reasoningKeywords is a non-empty list,   *)
(* every record of the result has a reasoning that contains one of the     *)
(* keywords, case-insensitively; a record with an empty reasoning is not   *)
(* in the result.                                                          *)
(***************************************************************************)
C15_Keywords ==
  FilterDone /\ options.reasoningKeywords # <<>> =>
    (Len(options.reasoningKeywords[1]) > 0 =>
       \A j \in 1..Len(ResultIds) :
         /\ HasAnalysis(ResultIds[j])
         /\ ReasonOf(ResultIds[j]) # ""
         /\ KeywordMeets(ResultIds[j], options.reasoningKeywords[1]))

(***************************************************************************)
(* C16 - minScore.  When minScore is given, every record of the result has *)
(* an entry of score >= minScore; and when minScore is the only criterion  *)
(* the result is exactly the records that have one, so a record with an    *)
(* empty categories list is not in it.                                     *)
(***************************************************************************)
C16_MinScore ==
  FilterDone /\ options.minScore # <<>> =>
    /\ \A j \in 1..Len(ResultIds) :
         HasAnalysis(ResultIds[j]) /\ ScoreMeets(ResultIds[j], options.minScore[1])
    /\ options = [NoOptions EXCEPT !.minScore = options.minScore] =>
         ResultIds = IdsWhere(LAMBDA k : HasAnalysis(k) /\ ScoreMeets(k, options.minScore[1]))

(* the categories criterion for a non-empty list of names *)
C17_CategoriesNonEmpty ==
  FilterDone /\ options.categories # <<>> =>
    (Len(options.categories[1]) > 0 =>
       /\ \A j \in 1..Len(ResultIds) :
            HasAnalysis(ResultIds[j]) /\ NamesMeet(ResultIds[j], options.categories[1])
       /\ options = [NoOptions EXCEPT !.categories = options.categories] =>
            ResultIds = IdsWhere(LAMBDA k : HasAnalysis(k) /\ NamesMeet(k, options.categories[1])))

(***************************************************************************)
(* C17 - categories.  When categories is a non-empty list, every record of *)
(* the result has an entry whose name is one of the given names (exact     *)
(* equality), and when it is the only criterion the result is exactly the  *)
(* records that have one; an empty list rejects no record: given alone, it *)
(* leaves every record that has a category_analysis.                       *)
(***************************************************************************)
C17_Categories ==
  /\ C17_CategoriesNonEmpty
  /\ FilterDone /\ options = [NoOptions EXCEPT !.categories = << <<>> >>] =>
       ResultIds = IdsWhere(LAMBDA k : HasAnalysis(k))

(* C17 as stated: the same, and no record is kept when the given list is empty *)
C17_EmptySetKeepsNone ==
  /\ C17_CategoriesNonEmpty
  /\ FilterDone /\ options.categories = << <<>> >> => ResultIds = <<>>

(* "dl" matches no name and "NLP" does: of two records with an analysis, one is kept *)
C17_Witness ==
  /\ FilterDone
  /\ options = [NoOptions EXCEPT !.categories = << <<"dl", "NLP">> >>]
  /\ Len(stored) = 2
  /\ HasAnalysis(1) /\ ~NamesMeet(1, <<"dl", "NLP">>)
  /\ ResultIds = <<2>>

(* the k-th record satisfies every criterion given *)
Satisfies(k) ==
  /\ options.mainCategory # <<>> /\ options.mainCategory[1] # "" =>
       stored[k].category = options.mainCategory[1]
  /\ options.categories # <<>> =>
       HasAnalysis(k) /\ (Len(options.categories[1]) > 0 => NamesMeet(k, options.categories[1]))
  /\ options.minScore # <<>> => HasAnalysis(k) /\ ScoreMeets(k, options.minScore[1])
  /\ options.reasoningKeywords # <<>> =>
       /\ HasAnalysis(k)
       /\ Len(options.reasoningKeywords[1]) > 0 => KeywordMeets(k, options.reasoningKeywords[1])

(***************************************************************************)
(* C18 - conjunction and limit.  The result is the first `limit` records,  *)
(* in retrieval order, of the records that satisfy every criterion given:  *)
(* mainCategory (non-empty) by equality of the category; categories,       *)
(* minScore and reasoningKeywords each requiring a category_analysis, and  *)
(* a name among the given ones, a score >= minScore, a keyword in the      *)
(* reasoning; without limit, all of them.                                  *)
(***************************************************************************)
C18_ConjunctionAndLimit ==
  FilterDone =>
    /\ ResultIds = FirstN(IdsWhere(Satisfies), options.limit)
    /\ \A j \in 1..Len(ResultIds) : filtered[1].docs[j] = retrieved[ResultIds[j]]

(* without criteria and without limit the result is the retrieved list *)
C19_NoCriteria ==
  FilterDone /\ options = NoOptions => filtered[1].docs = retrieved

(***************************************************************************)
(* C19 - no criteria, mainCategory alone.  Without criteria and without    *)
(* limit the result is the retrieved list itself; with only a non-empty    *)
(* mainCategory it is exactly the records whose category is that string;   *)
(* an empty mainCategory is no criterion.                                  *)
(***************************************************************************)
C19_MainCategory ==
  /\ C19_NoCriteria
  /\ FilterDone /\ options = [NoOptions EXCEPT !.mainCategory = options.mainCategory] =>
       /\ options.mainCategory \notin {<<>>, <<"">>} =>
            ResultIds = IdsWhere(LAMBDA k : stored[k].category = options.mainCategory[1])
       /\ options.mainCategory = <<"">> => filtered[1].docs = retrieved
       /\ \A j \in 1..Len(ResultIds) : filtered[1].docs[j] = retrieved[ResultIds[j]]

(* C19 as stated: mainCategory alone keeps exactly the records of that category *)
C19_ExactEquality ==
  /\ C19_NoCriteria
  /\ FilterDone /\ options.mainCategory # <<>>
       /\ options = [NoOptions EXCEPT !.mainCategory = options.mainCategory] =>
       ResultIds = IdsWhere(LAMBDA k : stored[k].category = options.mainCategory[1])

(* mainCategory "DL" alone over a "DL" record and a record without analysis: the first is kept *)
C19_Witness ==
  /\ FilterDone
  /\ options = [NoOptions EXCEPT !.mainCategory = <<"DL">>]
  /\ Len(stored) = 2
  /\ stored[1].category = "DL"
  /\ ~HasAnalysis(2)
  /\ ResultIds = <<1>>

(* a payload holds an analysis, as a value or as its JSON text; the value it holds *)
Decodable(payload) ==
  /\ payload.category_analysis # <<>>
  /\ \/ payload.category_analysis[1].kind = "object"
     \/ /\ payload.category_analysis[1].depth = 0
        /\ JSONparse(payload.category_analysis[1].toks) # <<>>

StructuredForm(payload) ==
  IF ~Decodable(payload) THEN <<>>
  ELSE IF payload.category_analysis[1].kind = "object" THEN payload.category_analysis
  ELSE <<ObjVal(JSONparse(payload.category_analysis[1].toks)[1])>>

(***************************************************************************)
(* C20 - the read path tolerates both representations.  A payload whose    *)
(* category_analysis is a structured value or the JSON text of one reaches *)
(* the HTTP response of GET /documents, the result of semanticSearch (when *)
(* the reasoning is asked for) and the criteria of advancedFiltering as    *)
(* that structured value; any other payload reaches them without the       *)
(* field; and no payload makes the request fail.                           *)
(***************************************************************************)
C20_BothRepresentations ==
  /\ handed # <<>> /\ handed[1].err = "none" /\ handed[1].includeReasoning =>
       \A j \in 1..Len(handed[1].docs) :
         handed[1].docs[j].category_analysis = StructuredForm(stored[handed[1].docs[j].id])
  /\ filtered # <<>> =>
       /\ filtered[1].err \in {"none", "unavailable"}
       /\ \A k \in 1..Len(retrieved) :
            /\ ~decode(retrieved[k]).thrown => decode(retrieved[k]).value = StructuredForm(stored[k])
            /\ decode(retrieved[k]).thrown => ~Decodable(stored[k])


(* the rows of the categorized CSV that pass the validation, in file order *)
ValidRows == SelectSeq(csvRows, LAMBDA row : row.missing = {})

InvalidRowAt == {k \in 1..Len(csvRows) : csvRows[k].missing # {}}

Validated == pcIngest \in {"loop", "await", "upsert", "done"}

(***************************************************************************)
(* C21 - Second-boundary validation.  A categorized row that fails the     *)
(* record validation is dropped: the run works on exactly the valid rows,  *)
(* in file order; every point of the store was built from a valid row;     *)
(* when the run ends, every valid row was embedded, and when its embedding *)
(* succeeded a point with its id is in the store; and a run that had a     *)
(* valid row ends with an error only when the store failed.                *)
(***************************************************************************)
C21_SecondBoundary ==
  /\ Validated => validRecords = ValidRows
  /\ \A k \in 1..Len(points) :
       \E j \in 1..Len(ValidRows) : points[k] = MakePoint(ValidRows[j])
  /\ pcIngest = "done" =>
       /\ Len(embedded) = Len(ValidRows)
       /\ \A j \in 1..Len(ValidRows) :
            /\ embedded[j] # "none"
            /\ embedded[j] = "ok" =>
                 \E k \in 1..Len(points) : points[k].id = ValidRows[j].id
  /\ (pcIngest = "failed" /\ Len(ValidRows) > 0) => ingestErr = "unavailable"

(* a run over a valid row, an invalid row and another valid row wrote both valid rows *)
C21_Witness ==
  /\ pcIngest = "done"
  /\ Len(csvRows) = 3
  /\ InvalidRowAt = {2}
  /\ {points[k].id : k \in 1..Len(points)} = {"r1", "r2"}


(***************************************************************************)
(* C30 - No valid row, no store operation.  When no row of the             *)
(* categorized CSV passes the validation (an empty file included), the run *)
(* ends with the error "no valid record" and has begun no store operation: *)
(* no collection listing or creation, no index creation, no embedding      *)
(* call, no upsert; the store is as it was.                                *)
(***************************************************************************)
C30_NoValidRowNoStoreOp ==
  (Len(ValidRows) = 0 /\ pcIngest # "start") =>
    /\ pcIngest = "failed"
    /\ ingestErr = "no_valid_record"
    /\ storeOps = {}
    /\ embedStarted = {}
    /\ upserts = <<>>
    /\ points = <<>>

(* a run over invalid rows only has ended *)
C30_Witness ==
  /\ Len(csvRows) > 0
  /\ Len(ValidRows) = 0
  /\ pcIngest = "failed"
  /\ ingestErr = "no_valid_record"


StoreFailed == answered \notin {"none", "ok"}

(* the batch the last upsert call was issued for *)
LastIssued == upserts[Len(upserts)].batch

C22_FetchCase ==
  /\ pcFetch = "error" /\ fetchErr = "index_missing" /\ Filter = <<>> /\ pages # <<>>

Returned(id) == Cardinality({k \in 1..Len(documents) : documents[k].id = id})

(***************************************************************************)
(* C25 - Rejection on a later page.  When a category-filtered scan had     *)
(* accumulated at least one page before the store rejected it for a        *)
(* missing index, and the fallback scan ended, fetch returns each record   *)
(* of the category exactly once.                                           *)
(***************************************************************************)
C25_LatePageFallback ==
  (pcFetch = "done" /\ fallbackFrom # <<>> /\ fallbackFrom[1] > 0) =>
    \A k \in 1..Len(points) :
      Returned(points[k].id) = IF points[k].category = Filter[1] THEN 1 ELSE 0


(* the columns of a cleaned record *)
FrameColumns ==
  {"id", "project_id", "asset_id", "content_type", "text", "created_at", "updated_at"}

(***************************************************************************)
(* C23 - Frame of classification.  Whether the classification of a record  *)
(* succeeds or degrades, the output record has the seven columns of the    *)
(* input with the input's values, and nothing else than category and       *)
(* category_analysis besides; the output of a call that threw, answered    *)
(* without a JSON object or answered an object failing the schema carries  *)
(* no category_analysis.                                                   *)
(***************************************************************************)
C23_Frame ==
  result # <<>> =>
    /\ DOMAIN one.record = FrameColumns
    /\ DOMAIN result[1] = FrameColumns \cup {"category", "category_analysis"}
    /\ \A f \in FrameColumns : result[1][f] = one.record[f]
    /\ Failed(one.response) => result[1].category_analysis = <<>>

(* a degraded output of the record r2, whose call answered *)
C23_Witness ==
  /\ result # <<>>
  /\ one.record.id = "r2"
  /\ Failed(one.response)
  /\ ~one.response.throws
  /\ result[1].updated_at = "d3"


(* the answer is one valid CategoryAnalysis object, alone or with text before and after it *)
EmbedsValidObject(r) ==
  /\ ~r.throws
  /\ Cardinality({k \in 1..Len(r.text) : r.text[k].t = "obj"}) = 1
  /\ ~FailsShape(ClassifierObject(r))

(* the text after the object contains a brace *)
BraceAfterObject(r) ==
  \E k \in 1..Len(r.text) :
    /\ r.text[k].t = "obj"
    /\ \E j \in (k + 1)..Len(r.text) : r.text[j].t \in {"lb", "rb"}

(***************************************************************************)
(* C24 - JSON extraction.  For every answer made of a valid                *)
(* CategoryAnalysis object preceded or followed by explanatory text, the   *)
(* trailing text containing braces included, the record receives that      *)
(* analysis and the name of its first maximal entry (the sentinel for an   *)
(* empty list) as category.                                                *)
(***************************************************************************)
C24_Extraction ==
  (result # <<>> /\ EmbedsValidObject(one.response)) =>
    LET cats == ClassifierObject(one.response).categories
    IN  /\ result[1].category_analysis # <<>>
        /\ result[1].category_analysis[1].reasoning = ClassifierObject(one.response).reasoning
        /\ result[1].category =
             IF cats = <<>> THEN Uncategorized ELSE cats[FirstMax(cats)].name

(* the same, for the answers without a brace after the object *)
C24_PlainTextAround ==
  (result # <<>> /\ EmbedsValidObject(one.response) /\ ~BraceAfterObject(one.response)) =>
    LET cats == ClassifierObject(one.response).categories
    IN  /\ result[1].category_analysis # <<>>
        /\ result[1].category =
             IF cats = <<>> THEN Uncategorized ELSE cats[FirstMax(cats)].name


(* the names of the entries of maximal score of a list *)
MaxNames(cats) ==
  {cats[j].name : j \in {n \in 1..Len(cats) : \A q \in 1..Len(cats) : cats[q].score <= cats[n].score}}

(***************************************************************************)
(* C26 - Derived fields in the store.  Every stored point whose            *)
(* payload.category_analysis is present with a non-empty list of           *)
(* categories has the name of an entry of maximal score of that list as    *)
(* payload.category, and every stored point whose category_analysis is     *)
(* null has the sentinel as payload.category.                              *)
(***************************************************************************)
C26_DerivedFields ==
  \A k \in 1..Len(points) :
    LET p == points[k].payload
    IN  IF p.category_analysis = <<>>
        THEN p.category = Uncategorized
        ELSE p.category_analysis[1].categories # <<>> =>
               p.category \in MaxNames(p.category_analysis[1].categories)

(* the same, for the points whose entries of maximal score all have a non-empty name *)
C26_NamedMaxima ==
  \A k \in 1..Len(points) :
    LET p == points[k].payload
    IN  IF p.category_analysis = <<>>
        THEN p.category = Uncategorized
        ELSE (p.category_analysis[1].categories # <<>>
              /\ "" \notin MaxNames(p.category_analysis[1].categories)) =>
               p.category \in MaxNames(p.category_analysis[1].categories)


(* the stored content of a record that no criterion can be applied to *)
Offending(payload) ==
  \/ ~Decodable(payload)
  \/ categoriesOf(StructuredForm(payload)[1]) = <<>>

(***************************************************************************)
(* C27 - The compound filter never fails on stored content.  Whatever the  *)
(* shape of a stored category_analysis (absent, structured, an object      *)
(* without a list of categories, the JSON text of an analysis, a text that *)
(* cannot be decoded) and whatever the criteria, advancedFiltering answers *)
(* a list when the store answered, and with a criterion on the analysis    *)
(* the list holds no record whose analysis is absent or undecodable.       *)
(***************************************************************************)
C27_NeverFails ==
  (filtered # <<>> /\ filtered[1].err # "unavailable") =>
    /\ filtered[1].err = "none"
    /\ ~noOtherFilter(options) =>
         \A j \in 1..Len(filtered[1].docs) : Decodable(stored[filtered[1].docs[j].id])

(* the same, for the collections without an offending record *)
C27_WellFormedStore ==
  LET wellFormed(k) ==
        stored[k].category_analysis # <<>> =>
          /\ stored[k].category_analysis[1].kind = "object"
          /\ ~Offending(stored[k])
  IN  (/\ filtered # <<>>
       /\ filtered[1].err # "unavailable"
       /\ \A k \in 1..Len(stored) : wellFormed(k)) => filtered[1].err = "none"


Answered200 == reply # <<>> /\ reply[1].status = 200

(***************************************************************************)
(* C28 - Advanced search narrows the semantic search.  Every document of a *)
(* successful POST /search/advanced response is one of the documents the   *)
(* semantic search returned for the query, so it carries a similarity      *)
(* score, and the response holds no more documents than that result.       *)
(***************************************************************************)
C28_Narrows ==
  Answered200 =>
    /\ \A j \in 1..Len(reply[1].documents) :
         /\ \E q \in 1..Len(handed[1].docs) : handed[1].docs[q].id = reply[1].documents[j].id
         /\ reply[1].documents[j].score
    /\ Len(reply[1].documents) <= Len(handed[1].docs)

(* the same, for the requests without a criterion on the analysis *)
C28_WithoutCriteria ==
  (Answered200 /\ ~hasCriteria(options)) =>
    reply[1].documents = sliceLimit(handed[1].docs, options.limit)


(* the place of the entry k of a list in its stable ordering by descending score *)
Rank(cats, k) ==
  1 + Cardinality({j \in 1..Len(cats) :
                     \/ cats[j].score > cats[k].score
                     \/ cats[j].score = cats[k].score /\ j < k})

(***************************************************************************)
(* C29 - Score-descending permutation.  The categories of a classified     *)
(* record are exactly the entries the classifier returned, each at the     *)
(* place its score gives it: after every entry of greater score and after  *)
(* the entries of equal score that came before it; and when the list is    *)
(* not empty the category of the record is the name of its first entry.    *)
(***************************************************************************)
C29_SortedPermutation ==
  (result # <<>> /\ result[1].category_analysis # <<>>) =>
    LET given == ClassifierObject(one.response).categories
        kept == result[1].category_analysis[1].categories
    IN  /\ Len(kept) = Len(given)
        /\ \A k \in 1..Len(given) : kept[Rank(given, k)] = given[k]
        /\ \A k \in 1..(Len(kept) - 1) : kept[k].score >= kept[k + 1].score
        /\ kept # <<>> => result[1].category = kept[1].name

(* a classified record whose two entries came in ascending score and were swapped *)
C29_Witness ==
  /\ result # <<>>
  /\ result[1].category_analysis # <<>>
  /\ LET given == ClassifierObject(one.response).categories
         kept == result[1].category_analysis[1].categories
     IN  /\ Len(given) = 2
         /\ given[1].score < given[2].score
         /\ kept = <<given[2], given[1]>>
         /\ result[1].category = given[2].name

====
